---- MODULE Spec2Model ----
(***************************************************************************)
(* A model of superset/sql_parse.py: the Table value, the KQL statement    *)
(* splitter, table extraction over a scope tree, and the two row-level     *)
(* security (RLS) rewrites of a sqlparse token tree.                       *)
(*                                                                         *)
(* Text is a sequence of one-character strings.  Each component has its    *)
(* own specification (SpecTable, SpecTableEq, ...): Init draws the inputs  *)
(* from bounded sets and the actions apply the code to them.               *)
(***************************************************************************)
EXTENDS Integers, Sequences, FiniteSets, TLC

VARIABLES
    comp,        \* which component this behaviour exercises
    ta, tb,      \* Table values under test
    t_str,       \* str(ta), once computed
    t_eq,        \* ta == tb, once computed
    t_hash_eq,   \* hash(ta) == hash(tb), once computed
    t_set,       \* the Python set built by adding ta and then tb
    t_done,      \* the Table operations applied so far
    kql,         \* split_kql: the text passed in
    query,       \* the text scanned (kql made to end in a semicolon)
    k_i,         \* Python index of the next character to read
    k_state,     \* KQLSplitState
    statement_start,
    statements,  \* the statements found so far
    k_seen,      \* the state in which each character read so far was read
    k_pc,        \* "start", "loop" or "done"
    pq_outcome,  \* what sqlglot's parse does with the text: "ok" or the error raised
    pq_statements, \* the statements parse returns when it succeeds
    pq_i,        \* the statement extracted next
    pq_tables,   \* the tables collected so far
    pq_raised,   \* the exception ParsedQuery.tables raised, if any
    pq_pc,       \* "start", "extract", "returned" or "raised"
    mode,        \* the rewrite called: "predicate" or "subquery"
    rls_tables,  \* the tables the predicate lookup has a predicate for
    token_list,  \* the tokens of the tree the caller passed, as the caller sees them
    scan,        \* the tokens of the list the loop iterates over
    original,    \* the caller's tokens when the call was made
    r_k,         \* position (from 1) of the token the loop reads next
    r_state,     \* InsertRLSState
    rls,         \* the local variable rls
    returned,    \* the tokens of the tree returned
    r_pc,        \* "loop" or "done"
    frames,      \* the calls of insert_rls_in_predicate in progress, the outermost first
    filters,     \* the filter each table's dataset has
    s_class,     \* the statement class: "KustoKQLStatement" or "SQLStatement"
    s_engine,    \* the engine passed in
    s_text,      \* the text passed in
    s_statements, \* SQLScript.statements: the parsed form of each statement
    s_formatted, \* what SQLScript.format returned
    s_again,     \* the statements of a SQLScript built from s_formatted
    s_parsed,    \* the _parsed of a statement built from s_text
    s_raised,    \* the exception raised, if any
    s_pc,        \* where the script or statement under construction is
    g_statements, \* get_settings: what each statement's get_settings returns
    g_i,         \* the statement read next
    settings,    \* the dict being filled
    g_pc,        \* "loop" or "done"
    fn_in,       \* the arguments of the function called
    fn_out,      \* what it returned or raised
    fn_pc        \* "call" or "done"

tableVars == <<ta, tb, t_str, t_eq, t_hash_eq, t_set, t_done>>
kqlVars == <<kql, query, k_i, k_state, statement_start, statements, k_seen, k_pc>>
pqVars == <<pq_outcome, pq_statements, pq_i, pq_tables, pq_raised, pq_pc>>
rlsVars == <<mode, rls_tables, token_list, scan, original, r_k, r_state, rls, returned, r_pc, frames, filters>>
scriptVars == <<s_class, s_engine, s_text, s_statements, s_formatted, s_again, s_parsed, s_raised, s_pc>>
settingsVars == <<g_statements, g_i, settings, g_pc>>
fnVars == <<fn_in, fn_out, fn_pc>>
vars == <<comp, tableVars, kqlVars, pqVars, rlsVars, scriptVars, settingsVars, fnVars>>

\* What the actions of one component leave alone.
notTable == <<comp, kqlVars, pqVars, rlsVars, scriptVars, settingsVars, fnVars>>
notKql == <<comp, tableVars, pqVars, rlsVars, scriptVars, settingsVars, fnVars>>
notPq == <<comp, tableVars, kqlVars, rlsVars, scriptVars, settingsVars, fnVars>>
notRls == <<comp, tableVars, kqlVars, pqVars, scriptVars, settingsVars, fnVars>>
notScript == <<comp, tableVars, kqlVars, pqVars, rlsVars, settingsVars, fnVars>>
notSettings == <<comp, tableVars, kqlVars, pqVars, rlsVars, scriptVars, fnVars>>
notFn == <<comp, tableVars, kqlVars, pqVars, rlsVars, scriptVars, settingsVars>>

\* Python's None where a text is expected: no text is this sequence, whose
\* only element is not a character.
None == <<"None">>

--------------------------------------------------------------------------
(* Bounds *)

\* Longest part (table, schema or catalog name) of a Table in SpecTable.
MaxPartLen == 2
\* Longest part of the two Tables compared in SpecTableEq.
MaxPairPartLen == 1

\* Characters of a part: an unreserved letter, the separator, the escape.
PartChars == {"a", ".", "%"}
PairChars == {"a"}

\* Longest text given to split_kql.
MaxKqlLen == 4
\* A semicolon, the three string delimiters, the escape, any other character.
\* (the double quote, the backtick and the backslash are written by name).
DoubleQuote == "dquote"
Backslash == "bslash"
Backtick == "btick"
\* Most JOIN clauses in a statement given to the RLS rewrites.
MaxJoins == 1

\* Most scopes in the scope tree of a statement (a chain: each scope is the
\* parent of the next).
MaxScopes == 3

KqlChars == {";", "'", DoubleQuote, Backtick, Backslash, "a"}

StrsOver(chars, n) == UNION {[1..k -> chars] : k \in 0..n}

--------------------------------------------------------------------------
(* Table: __str__, __eq__, __hash__ *)

RECURSIVE Concat(_)
Concat(ss) == IF ss = <<>> THEN <<>> ELSE Head(ss) \o Concat(Tail(ss))

RECURSIVE JoinWith(_, _)
JoinWith(sep, ss) ==
    IF ss = <<>> THEN <<>>
    ELSE IF Len(ss) = 1 THEN Head(ss)
    ELSE Head(ss) \o sep \o JoinWith(sep, Tail(ss))

\* urllib.parse.quote(part, safe=""): unreserved characters (letters, digits,
\* "_", ".", "-", "~") are kept, every other character becomes %XX.
QuoteChar(c) == IF c = "%" THEN <<"%", "2", "5">> ELSE <<c>>

Quote(part) == Concat([i \in 1..Len(part) |-> QuoteChar(part[i])])

\* str.replace(".", "%2E")
ReplaceDot(s) ==
    Concat([i \in 1..Len(s) |-> IF s[i] = "." THEN <<"%", "2", "E">> ELSE <<s[i]>>])

EscapePartNoDot(part) == Quote(part)

EscapePart(part) == ReplaceDot(Quote(part))

\* "if part": None and the empty string are both dropped.
Truthy(part) == part # None /\ part # <<>>

SelectSeqTruthy(parts) == SelectSeq(parts, Truthy)

TableStr(t) ==
    LET parts == SelectSeqTruthy(<<t.catalog, t.schema, t.table>>)
    IN  JoinWith(<<".">>, [i \in 1..Len(parts) |-> EscapePart(parts[i])])

\* __eq__ compares the string forms.
TableEq(a, b) == TableStr(a) = TableStr(b)

TableHashByStr(t) == TableStr(t)

\* dataclass(eq=True, frozen=True) generates __hash__ from the fields: the class
\* defines __eq__ but no __hash__, so the generated one is installed.  The hash
\* of the field tuple is modelled by the tuple (distinct tuples, distinct hashes).
TableHash(t) == <<t.table, t.schema, t.catalog>>

\* set.add: an element is already present when one of equal hash compares equal.
SetAdd(S, x) ==
    IF \E y \in S : TableHash(y) = TableHash(x) /\ TableEq(y, x) THEN S ELSE S \cup {x}

MkTable(table, schema, catalog) == [table |-> table, schema |-> schema, catalog |-> catalog]

TablesOver(chars, n) ==
    {MkTable(t, s, c) : t \in StrsOver(chars, n) \ {<<>>},
                        s \in StrsOver(chars, n) \cup {None},
                        c \in StrsOver(chars, n) \cup {None}}

ATable == MkTable(<<"a">>, None, None)

TableIdle ==
    /\ ta = ATable /\ tb = ATable
    /\ t_str = None /\ t_eq = FALSE /\ t_hash_eq = FALSE /\ t_set = {}
    /\ t_done = {}

KqlIdle ==
    /\ kql = <<>> /\ query = <<>> /\ k_i = 0 /\ k_state = "OUTSIDE_STRING"
    /\ statement_start = 0 /\ statements = <<>> /\ k_seen = <<>> /\ k_pc = "idle"

ScriptIdle ==
    /\ s_class = "none" /\ s_engine = "none" /\ s_text = <<>> /\ s_statements = <<>>
    /\ s_formatted = <<>> /\ s_again = <<>> /\ s_parsed = <<>> /\ s_raised = "none"
    /\ s_pc = "idle"

SettingsIdle == g_statements = <<>> /\ g_i = 1 /\ settings = <<>> /\ g_pc = "idle"

FnIdle == fn_in = <<>> /\ fn_out = <<>> /\ fn_pc = "idle"

\* The components a specification of another component leaves idle.
OthersIdle == ScriptIdle /\ SettingsIdle /\ FnIdle

RlsIdle ==
    /\ mode = "none" /\ rls_tables = {} /\ token_list = <<>> /\ scan = <<>>
    /\ original = <<>> /\ r_k = 1 /\ r_state = "SCANNING"
    /\ rls = [cls |-> "NoneType", ttype |-> "None", value |-> "", tokens |-> <<>>]
    /\ returned = <<>> /\ r_pc = "idle"
    /\ frames = <<>> /\ filters = <<>>

PqIdle ==
    /\ pq_outcome = "ok" /\ pq_statements = <<>> /\ pq_i = 1 /\ pq_tables = {}
    /\ pq_raised = "none" /\ pq_pc = "idle"

InitTable ==
    /\ comp = "table"
    /\ KqlIdle /\ PqIdle /\ RlsIdle /\ OthersIdle
    /\ ta \in TablesOver(PartChars, MaxPartLen)
    /\ tb = ATable
    /\ t_str = None /\ t_eq = FALSE /\ t_hash_eq = FALSE /\ t_set = {}
    /\ t_done = {}

InitTableEq ==
    /\ comp = "table_eq"
    /\ KqlIdle /\ PqIdle /\ RlsIdle /\ OthersIdle
    /\ ta \in TablesOver(PairChars, MaxPairPartLen)
    /\ tb \in TablesOver(PairChars, MaxPairPartLen)
    /\ t_str = None /\ t_eq = FALSE /\ t_hash_eq = FALSE /\ t_set = {}
    /\ t_done = {}

Str ==
    /\ comp \in {"table", "table_eq"}
    /\ "str" \notin t_done
    /\ t_done' = t_done \cup {"str"}
    /\ t_str' = TableStr(ta)
    /\ UNCHANGED <<notTable, ta, tb, t_eq, t_hash_eq, t_set>>

Eq ==
    /\ comp \in {"table", "table_eq"}
    /\ "eq" \notin t_done
    /\ t_done' = t_done \cup {"eq"}
    /\ t_eq' = TableEq(ta, tb)
    /\ UNCHANGED <<notTable, ta, tb, t_str, t_hash_eq, t_set>>

Hash ==
    /\ comp \in {"table", "table_eq"}
    /\ "hash" \notin t_done
    /\ t_done' = t_done \cup {"hash"}
    /\ t_hash_eq' = (TableHash(ta) = TableHash(tb))
    /\ UNCHANGED <<notTable, ta, tb, t_str, t_eq, t_set>>

\* {ta, tb}
BuildSet ==
    /\ comp \in {"table", "table_eq"}
    /\ "set" \notin t_done
    /\ t_done' = t_done \cup {"set"}
    /\ t_set' = SetAdd(SetAdd({}, ta), tb)
    /\ UNCHANGED <<notTable, ta, tb, t_str, t_eq, t_hash_eq>>

NextTable == Str \/ Eq \/ Hash \/ BuildSet

SpecTable == InitTable /\ [][NextTable]_vars

SpecTableEq == InitTableEq /\ [][NextTable]_vars

--------------------------------------------------------------------------
(* Reading a string form back: split at the dots, un-escape each segment. *)

RECURSIVE SplitDotsFrom(_, _)
SplitDotsFrom(s, cur) ==
    IF s = <<>> THEN <<cur>>
    ELSE IF Head(s) = "." THEN <<cur>> \o SplitDotsFrom(Tail(s), <<>>)
    ELSE SplitDotsFrom(Tail(s), Append(cur, Head(s)))

SplitDots(s) == SplitDotsFrom(s, <<>>)

RECURSIVE Unquote(_)
Unquote(s) ==
    IF s = <<>> THEN <<>>
    ELSE IF Len(s) >= 3 /\ s[1] = "%" /\ s[2] = "2" /\ s[3] = "E"
        THEN <<".">> \o Unquote(SubSeq(s, 4, Len(s)))
    ELSE IF Len(s) >= 3 /\ s[1] = "%" /\ s[2] = "2" /\ s[3] = "5"
        THEN <<"%">> \o Unquote(SubSeq(s, 4, Len(s)))
    ELSE <<Head(s)>> \o Unquote(Tail(s))

UnquoteAll(segs) == [i \in 1..Len(segs) |-> Unquote(segs[i])]

ParseTableStr(s) ==
    LET u == UnquoteAll(SplitDots(s))
    IN  IF Len(u) = 1 THEN MkTable(u[1], None, None)
        ELSE IF Len(u) = 2 THEN MkTable(u[2], u[1], None)
        ELSE IF Len(u) = 3 THEN MkTable(u[3], u[2], u[1])
        ELSE MkTable(None, None, None)

PresentParts(t) == SelectSeqTruthy(<<t.catalog, t.schema, t.table>>)

\* Every part that is given is a non-empty text.
PartsNonEmpty(t) ==
    /\ Truthy(t.table)
    /\ t.schema = None \/ Truthy(t.schema)
    /\ t.catalog = None \/ Truthy(t.catalog)

\* The documented shape [[catalog.]schema.]table: a catalog only with a schema.
Conforming(t) == PartsNonEmpty(t) /\ (t.catalog # None => t.schema # None)

(* C8: two Tables with the same string form are equal, have the same hash,
   and are one element of a set. *)
C8_EqAndHashByString ==
    ({"eq", "hash", "set"} \subseteq t_done /\ TableStr(ta) = TableStr(tb))
        => (t_eq /\ t_hash_eq /\ Cardinality(t_set) = 1)

(* C9 as stated: for every combination of present and absent schema and
   catalog, reading the string form back gives the same triple. *)
C9_RoundTripEveryCombination ==
    ("str" \in t_done /\ PartsNonEmpty(ta)) => ParseTableStr(t_str) = ta

(* C9 as amended: the string form is the present parts in the order catalog,
   schema, table, each escaped so that every dot left in the string is a
   separator; reading it back gives the same triple whenever the Table has
   the shape [[catalog.]schema.]table. *)
C9_RoundTripConforming ==
    "str" \in t_done =>
        /\ PresentParts(ta) # <<>> => UnquoteAll(SplitDots(t_str)) = PresentParts(ta)
        /\ Conforming(ta) => ParseTableStr(t_str) = ta

C9_Witness ==
    /\ "str" \in t_done
    /\ Conforming(ta) /\ ta.catalog # None
    /\ \E i \in 1..Len(ta.table) : ta.table[i] = "."
    /\ \E i \in 1..Len(ta.schema) : ta.schema[i] = "%"

--------------------------------------------------------------------------
(* split_kql *)

\* Python's s[a:b] for indexes that may be negative or past the end.
PyClamp(s, a) == IF a < 0 THEN (IF Len(s) + a < 0 THEN 0 ELSE Len(s) + a)
                 ELSE (IF a > Len(s) THEN Len(s) ELSE a)

PySlice(s, a, b) == SubSeq(s, PyClamp(s, a) + 1, PyClamp(s, b))

\* Python's s[a] for -len(s) <= a < len(s).
PyAt(s, a) == IF a < 0 THEN s[Len(s) + a + 1] ELSE s[a + 1]

EndsWithSemicolon(s) == s # <<>> /\ s[Len(s)] = ";"

SplitsAtAnySemicolon(state, character) == character = ";"

\* The character ends a statement.
SplitsAt(state, character) == state = "OUTSIDE_STRING" /\ character = ";"

\* The chain with a quote that ends its string whatever stands before it.
KqlNextStateAnyQuote(state, q, i) ==
    LET character == PyAt(q, i) IN
    IF state = "OUTSIDE_STRING" THEN
        IF character = "'" THEN "INSIDE_SINGLE_QUOTED_STRING"
        ELSE IF character = DoubleQuote THEN "INSIDE_DOUBLE_QUOTED_STRING"
        ELSE IF character = Backtick /\ PySlice(q, i - 2, i) = <<Backtick, Backtick>>
            THEN "INSIDE_MULTILINE_STRING"
        ELSE state
    ELSE IF state = "INSIDE_SINGLE_QUOTED_STRING" /\ character = "'" THEN "OUTSIDE_STRING"
    ELSE IF state = "INSIDE_DOUBLE_QUOTED_STRING" /\ character = DoubleQuote THEN "OUTSIDE_STRING"
    ELSE IF state = "INSIDE_MULTILINE_STRING" /\ character = Backtick
            /\ PySlice(q, i - 2, i) = <<Backtick, Backtick>>
        THEN "OUTSIDE_STRING"
    ELSE state

\* The state after reading query[i] in `state` (the if/elif chain of the loop).
KqlNextState(state, q, i) ==
    LET character == PyAt(q, i) IN
    IF state = "OUTSIDE_STRING" THEN
        IF character = ";" THEN state
        ELSE IF character = "'" THEN "INSIDE_SINGLE_QUOTED_STRING"
        ELSE IF character = DoubleQuote THEN "INSIDE_DOUBLE_QUOTED_STRING"
        ELSE IF character = Backtick /\ PySlice(q, i - 2, i) = <<Backtick, Backtick>>
            THEN "INSIDE_MULTILINE_STRING"
        ELSE state
    ELSE IF state = "INSIDE_SINGLE_QUOTED_STRING" /\ character = "'"
            /\ PyAt(q, i - 1) # Backslash
        THEN "OUTSIDE_STRING"
    ELSE IF state = "INSIDE_DOUBLE_QUOTED_STRING" /\ character = DoubleQuote
            /\ PyAt(q, i - 1) # Backslash
        THEN "OUTSIDE_STRING"
    ELSE IF state = "INSIDE_MULTILINE_STRING" /\ character = Backtick
            /\ PySlice(q, i - 2, i) = <<Backtick, Backtick>>
        THEN "OUTSIDE_STRING"
    ELSE state

InitKql ==
    /\ comp = "kql"
    /\ TableIdle /\ PqIdle /\ RlsIdle /\ OthersIdle
    /\ kql \in StrsOver(KqlChars, MaxKqlLen)
    /\ query = <<>> /\ k_i = 0 /\ k_state = "OUTSIDE_STRING"
    /\ statement_start = 0 /\ statements = <<>> /\ k_seen = <<>>
    /\ k_pc = "start"

\* Lines 565-568: the locals, and the text made to end in a semicolon.
KqlNormalize ==
    /\ comp = "kql" /\ k_pc = "start"
    /\ query' = IF EndsWithSemicolon(kql) THEN kql ELSE Append(kql, ";")
    /\ k_pc' = "loop"
    /\ UNCHANGED <<notKql, kql, k_i, k_state, statement_start, statements, k_seen>>

\* One iteration of the loop over enumerate(query).
KqlChar ==
    /\ comp = "kql" /\ k_pc = "loop" /\ k_i < Len(query)
    /\ IF SplitsAt(k_state, PyAt(query, k_i))
         THEN /\ statements' = Append(statements, PySlice(query, statement_start, k_i))
              /\ statement_start' = k_i + 1
         ELSE UNCHANGED <<statements, statement_start>>
    /\ k_state' = KqlNextState(k_state, query, k_i)
    /\ k_seen' = Append(k_seen, k_state)
    /\ k_i' = k_i + 1
    /\ UNCHANGED <<notKql, kql, query, k_pc>>

KqlReturn ==
    /\ comp = "kql" /\ k_pc = "loop" /\ k_i = Len(query)
    /\ k_pc' = "done"
    /\ UNCHANGED <<notKql, kql, query, k_i, k_state, statement_start, statements, k_seen>>

NextKql == KqlNormalize \/ KqlChar \/ KqlReturn

SpecKql == InitKql /\ [][NextKql]_vars

\* The positions (1-based) of the semicolons read in OUTSIDE_STRING so far.
OutsideSemicolons == {j \in 1..Len(k_seen) : query[j] = ";" /\ k_seen[j] = "OUTSIDE_STRING"}

InsideSemicolons == {j \in 1..Len(k_seen) : query[j] = ";" /\ k_seen[j] # "OUTSIDE_STRING"}

\* The n-th smallest element of a set of positions.
NthOf(S, n) == CHOOSE x \in S : Cardinality({y \in S : y < x}) = n - 1

(* C10: the text is split at a semicolon exactly when the semicolon is read in
   OUTSIDE_STRING: the statements found are the stretches of the text between
   consecutive such semicolons, one per such semicolon, and no statement ends
   at a semicolon read inside a string. *)
C10_SplitOnlyOutsideString ==
    k_pc \in {"loop", "done"} =>
        /\ Len(statements) = Cardinality(OutsideSemicolons)
        /\ \A n \in 1..Len(statements) :
              statements[n] =
                  SubSeq(query,
                         IF n = 1 THEN 1 ELSE NthOf(OutsideSemicolons, n - 1) + 1,
                         NthOf(OutsideSemicolons, n) - 1)
        /\ \A j \in InsideSemicolons : statement_start # j

C10_Witness ==
    /\ k_pc = "done" /\ k_state = "OUTSIDE_STRING"
    /\ Len(statements) = 2
    /\ \E j \in InsideSemicolons : k_seen[j] = "INSIDE_SINGLE_QUOTED_STRING"

\* The text after the last semicolon of kql read in OUTSIDE_STRING (the whole
\* text when there is none).
TrailingText ==
    LET splits == {j \in OutsideSemicolons : j <= Len(kql)}
        last == IF splits = {} THEN 0 ELSE CHOOSE j \in splits : \A m \in splits : m <= j
    IN  SubSeq(kql, last + 1, Len(kql))

(* C11: split_kql captures the trailing statement that has no terminating
   semicolon: for a text that does not end in a semicolon, the text after
   the last splitting semicolon (the whole text when there is none) is
   returned as the last statement. *)
C11_TrailingStatementCaptured ==
    (k_pc = "done" /\ ~EndsWithSemicolon(kql)) =>
        /\ statements # <<>>
        /\ statements[Len(statements)] = TrailingText

\* The same for the texts that leave no string open.
C11_TrailingCapturedOutsideString ==
    (k_pc = "done" /\ ~EndsWithSemicolon(kql) /\ k_state = "OUTSIDE_STRING") =>
        /\ statements # <<>>
        /\ statements[Len(statements)] = TrailingText

--------------------------------------------------------------------------
(* Table extraction: extract_tables_from_statement, is_cte,
   ParsedQuery.tables *)

\* The names a query refers to.
SourceNames == {"a", "cte"}

OtherName(n) == IF n = "a" THEN "cte" ELSE "a"

Absent == [kind |-> "Absent", name |-> "", db |-> "", catalog |-> "", scope_type |-> ""]

\* An exp.Table source.
TableSource(name, db) ==
    [kind |-> "Table", name |-> name, db |-> db, catalog |-> "", scope_type |-> ""]

\* A source that is a nested Scope.
ScopeSource(scope_type) ==
    [kind |-> "Scope", name |-> "", db |-> "", catalog |-> "", scope_type |-> scope_type]

\* What a scope can bind a key to: nothing, the table of that name, another
\* table under that alias (schema-qualified), a CTE, a derived table.
SourcesFor(key) ==
    {Absent, TableSource(key, ""), TableSource(OtherName(key), "s"),
     ScopeSource("CTE"), ScopeSource("DERIVED_TABLE")}

\* scope.sources: key -> source.  The scopes of a statement are a sequence in
\* which scope i + 1 has scope i as its parent; the first is the root.
ScopeSources == {f \in [SourceNames -> UNION {SourcesFor(k) : k \in SourceNames}] :
                    \A k \in SourceNames : f[k] \in SourcesFor(k)}

ScopeChains == UNION {[1..n -> ScopeSources] : n \in 1..MaxScopes}

NoScopes == <<>>

\* A parsed statement: a Describe, a Command, or any other expression with its
\* scopes; NoStatement is the None that parse returns for an empty statement.
OtherStatement(scopes) ==
    [kind |-> "Other", scopes |-> scopes, tables |-> {}, literal |-> FALSE, pseudo |-> "ok"]

DescribeStatement(tables) ==
    [kind |-> "Describe", scopes |-> NoScopes, tables |-> tables, literal |-> FALSE,
     pseudo |-> "ok"]

\* literal: the command has a Literal; pseudo: what parse_one does with
\* "SELECT <literal>"; tables: the exp.Table nodes of that pseudo query.
CommandStatement(literal, pseudo, tables) ==
    [kind |-> "Command", scopes |-> NoScopes, tables |-> tables, literal |-> literal,
     pseudo |-> pseudo]

NoStatement ==
    [kind |-> "None", scopes |-> NoScopes, tables |-> {}, literal |-> FALSE, pseudo |-> "ok"]

\* scope.parent.sources if scope.parent else {}
ParentSources(scopes, i) == IF i > 1 THEN scopes[i - 1] ELSE [k \in SourceNames |-> Absent]

IsCteAnyAncestor(source, scopes, i) ==
    \E j \in 1..(i - 1) : \E name \in SourceNames :
        /\ scopes[j][name].kind = "Scope" /\ scopes[j][name].scope_type = "CTE"
        /\ source.name = name

is_cte(source, scopes, i) ==
    LET parent_sources == ParentSources(scopes, i)
        ctes_in_scope == {name \in SourceNames :
                             /\ parent_sources[name].kind = "Scope"
                             /\ parent_sources[name].scope_type = "CTE"}
    IN  source.name \in ctes_in_scope

\* Table(source.name, source.db or None, source.catalog or None)
TableOfSource(source) ==
    MkTable(<<source.name>>,
            IF source.db # "" THEN <<source.db>> ELSE None,
            IF source.catalog # "" THEN <<source.catalog>> ELSE None)

\* The sources extract_tables_from_statement selects, by statement kind.
SelectedSources(statement) ==
    IF statement.kind = "Describe" THEN statement.tables
    ELSE IF statement.kind = "Command" THEN
        IF ~statement.literal THEN {}
        ELSE IF statement.pseudo # "ok" THEN {}
        ELSE statement.tables
    ELSE LET scopes == statement.scopes IN
         {scopes[p[1]][p[2]] :
             p \in {q \in (1..Len(scopes)) \X SourceNames :
                       /\ scopes[q[1]][q[2]].kind = "Table"
                       /\ ~is_cte(scopes[q[1]][q[2]], scopes, q[1])}}

RECURSIVE SetOfAll(_, _)
\* A Python set built from the elements of S, added one by one to acc.
SetOfAll(S, acc) ==
    IF S = {} THEN acc
    ELSE LET x == CHOOSE y \in S : TRUE IN SetOfAll(S \ {x}, SetAdd(acc, x))

extract_tables_from_statement(statement) ==
    SetOfAll({TableOfSource(src) : src \in SelectedSources(statement)}, {})

\* The except clause of _extract_tables_from_sql: every SqlglotError becomes a
\* SupersetSecurityException.
SwallowParseFailure(outcome) == [pc |-> "returned", raised |-> "none"]

OnParseFailure(outcome) == [pc |-> "raised", raised |-> "SupersetSecurityException"]

ParseOutcomes == {"ok", "ParseError", "TokenError"}

StatementLists ==
    {<<OtherStatement(c)>> : c \in ScopeChains}
        \cup {<<DescribeStatement({TableSource("a", "")})>>,
              <<CommandStatement(FALSE, "ok", {})>>,
              <<CommandStatement(TRUE, "ParseError", {})>>,
              <<CommandStatement(TRUE, "ok", {TableSource("a", "s")})>>,
              <<OtherStatement(<<[k \in SourceNames |-> TableSource(k, "")]>>), NoStatement,
                DescribeStatement({TableSource("a", "")})>>}

InitPq ==
    /\ comp = "extract"
    /\ TableIdle /\ KqlIdle /\ RlsIdle /\ OthersIdle
    /\ pq_outcome \in ParseOutcomes
    /\ pq_statements \in (IF pq_outcome = "ok" THEN StatementLists ELSE {<<>>})
    /\ pq_i = 1 /\ pq_tables = {} /\ pq_raised = "none" /\ pq_pc = "start"

\* parse(self.stripped(), dialect) inside the try.
PqParse ==
    /\ comp = "extract" /\ pq_pc = "start"
    /\ IF pq_outcome = "ok"
         THEN pq_pc' = "extract" /\ UNCHANGED pq_raised
         ELSE /\ pq_pc' = OnParseFailure(pq_outcome).pc
              /\ pq_raised' = OnParseFailure(pq_outcome).raised
    /\ UNCHANGED <<notPq, pq_outcome, pq_statements, pq_i, pq_tables>>

\* One statement of the set comprehension: its tables are extracted, and kept
\* if the statement is not None.
PqExtractStatement ==
    /\ comp = "extract" /\ pq_pc = "extract" /\ pq_i <= Len(pq_statements)
    /\ LET statement == pq_statements[pq_i]
           found == extract_tables_from_statement(statement)
       IN  pq_tables' = IF statement.kind # "None"
                          THEN SetOfAll(found, pq_tables) ELSE pq_tables
    /\ pq_i' = pq_i + 1
    /\ UNCHANGED <<notPq, pq_outcome, pq_statements, pq_raised, pq_pc>>

PqReturn ==
    /\ comp = "extract" /\ pq_pc = "extract" /\ pq_i > Len(pq_statements)
    /\ pq_pc' = "returned"
    /\ UNCHANGED <<notPq, pq_outcome, pq_statements, pq_i, pq_tables, pq_raised>>

NextPq == PqParse \/ PqExtractStatement \/ PqReturn

SpecExtract == InitPq /\ [][NextPq]_vars

(* C6: a text the parser cannot parse never yields a table set: the call
   ends by raising SupersetSecurityException. *)
C6_ParseFailureRaises ==
    pq_outcome # "ok" =>
        /\ pq_pc # "returned"
        /\ pq_pc # "start" => (pq_pc = "raised" /\ pq_raised = "SupersetSecurityException")

C6_Witness == pq_outcome = "ParseError" /\ pq_pc = "raised"

\* The names the immediate parent of scope i binds to a CTE.
ParentCteNames(scopes, i) ==
    IF i = 1 THEN {}
    ELSE {n \in SourceNames : scopes[i - 1][n] = ScopeSource("CTE")}

GeneralCase == Len(pq_statements) = 1 /\ pq_statements[1].kind = "Other"

(* C7: in the general case a table-typed source of a scope is left out exactly
   when its name is a CTE binding of the scope's immediate parent: the tables
   returned are those of the table-typed sources whose name the immediate
   parent does not bind to a CTE, so no source named after a CTE of its parent
   scope contributes a table. *)
C7_LeftOutIffParentCte ==
    (pq_pc = "returned" /\ GeneralCase) =>
        LET scopes == pq_statements[1].scopes IN
        /\ \A i \in 1..Len(scopes) : \A k \in SourceNames :
              (scopes[i][k].kind = "Table" /\ scopes[i][k].name \notin ParentCteNames(scopes, i))
                  => TableOfSource(scopes[i][k]) \in pq_tables
        /\ \A t \in pq_tables :
              \E i \in 1..Len(scopes) : \E k \in SourceNames :
                  /\ scopes[i][k].kind = "Table"
                  /\ TableOfSource(scopes[i][k]) = t
                  /\ scopes[i][k].name \notin ParentCteNames(scopes, i)

C7_Witness ==
    /\ pq_pc = "returned" /\ GeneralCase
    /\ Len(pq_statements[1].scopes) = 2
    /\ pq_statements[1].scopes[1]["cte"] = ScopeSource("CTE")
    /\ pq_statements[1].scopes[2]["cte"] = TableSource("cte", "")
    /\ pq_statements[1].scopes[2]["a"] = TableSource("a", "")
    /\ pq_tables = {MkTable(<<"a">>, None, None)}

(***************************************************************************)
(* Row level security: insert_rls_in_predicate and insert_rls_as_subquery. *)
(* A token is a record: cls is the class (Token for a leaf, otherwise the  *)
(* TokenList subclass), ttype the token type of a leaf, value its text and *)
(* tokens the children of a group.                                         *)
(***************************************************************************)
Token(ttype, value) == [cls |-> "Token", ttype |-> ttype, value |-> value, tokens |-> <<>>]

\* A group takes the text it has on construction; the text of a group of
\* more than one leaf is never read by the rewrites and is left empty.
TokenList(cls, tokens) ==
    [cls |-> cls, ttype |-> "None",
     value |-> IF Len(tokens) = 1 THEN tokens[1].value ELSE "",
     tokens |-> tokens]

Identifier(tokens) == TokenList("Identifier", tokens)
Where(tokens) == TokenList("Where", tokens)
Parenthesis(tokens) == TokenList("Parenthesis", tokens)

NoRls == [cls |-> "NoneType", ttype |-> "None", value |-> "", tokens |-> <<>>]

Space == Token("Whitespace", " ")
Keyword(value) == Token("Keyword", value)

IsTokenList(token) == token.cls # "Token"

\* imt(token, m=[(Keyword, "FROM"), (Keyword, "JOIN")])
IsSourceKeyword(token) == token.ttype = "Keyword" /\ token.value \in {"FROM", "JOIN"}

\* isinstance(token, Identifier) or token.ttype == Keyword
IsCandidate(token) == token.cls = "Identifier" \/ token.ttype = "Keyword"

IsWhitespace(token) == token.ttype = "Whitespace"

\* TokenList.has_alias() as the rewrites rely on it: "name AS alias", or
\* "name alias" in a group of more than two tokens.
HasAlias(tlist) ==
    \/ \E p \in 1..Len(tlist.tokens) : tlist.tokens[p] = Keyword("AS")
    \/ Len(tlist.tokens) > 2 /\ \E p \in 1..Len(tlist.tokens) : IsWhitespace(tlist.tokens[p])

\* token_next_by(t=Whitespace)[0]: the index (from 0) of the first whitespace
\* token; the length of the list stands for "none".
FirstWhitespace(tokens) ==
    LET ws == {p \in 1..Len(tokens) : IsWhitespace(tokens[p])} IN
    IF ws = {} THEN Len(tokens) ELSE (CHOOSE p \in ws : \A q \in ws : p <= q) - 1

\* What get_table returns for a name that does not conform (None).
NoTable == MkTable(None, None, None)

\* ParsedQuery.get_table: the Table of a [[catalog.]schema.]table name, or
\* None. The names of these statements are unquoted.
get_table(tlist) ==
    LET idx == IF HasAlias(tlist) THEN FirstWhitespace(tlist.tokens) ELSE Len(tlist.tokens)
        tokens == PySlice(tlist.tokens, 0, idx)
        n == Len(tokens)
        name(p) == IF p >= 1 /\ p <= n THEN <<tokens[p].value>> ELSE None
    IN  IF /\ n \in {1, 3, 5}
           /\ \A p \in 1..n : (p % 2 = 1) => tokens[p].ttype \in {"Name", "String"}
           /\ \A p \in 1..n : (p % 2 = 0) => tokens[p] = Token("Punctuation", ".")
        THEN MkTable(name(n), name(n - 2), name(n - 4))
        ELSE NoTable

\* add_table_name: every Identifier without a parent name becomes
\* table.name; every other group is searched.
RECURSIVE add_table_name(_, _)
add_table_name(token, table) ==
    IF token.cls = "Identifier" /\ ~(\E p \in 1..Len(token.tokens) : token.tokens[p] = Token("Punctuation", "."))
    THEN [token EXCEPT !.tokens = <<Token("Name", table), Token("Punctuation", "."),
                                   Token("Name", token.tokens[Len(token.tokens)].value)>>]
    ELSE IF IsTokenList(token)
    THEN [token EXCEPT !.tokens = [p \in 1..Len(token.tokens) |-> add_table_name(token.tokens[p], table)]]
    ELSE token

\* The schema the datasets of the database are in, and default_schema.
DatasetSchema == <<"main">>
DefaultSchema == <<"main">>

\* sqlparse.parse(predicate)[0] for the filter of a dataset: id=42.
ParsedPredicate ==
    TokenList("Statement",
        <<TokenList("Comparison",
            <<Identifier(<<Token("Name", "id")>>), Token("Comparison", "="), Token("Integer", "42")>>)>>)

\* if rls: a TokenList is true, None is not.
RlsAlways(found) == TRUE
Rls(found) == found # NoRls

\* get_rls_for_table; db is the set of the tables whose dataset has filters.
get_rls_for_table(candidate, db) ==
    LET cand == IF candidate.cls # "Identifier"
                THEN Identifier(<<Token("Name", candidate.value)>>) ELSE candidate
        table == get_table(cand)
    IN  IF table = NoTable THEN NoRls
        ELSE IF ~(/\ (IF Truthy(table.schema) THEN table.schema ELSE DefaultSchema) = DatasetSchema
                  /\ table.table[1] \in db)
        THEN NoRls
        ELSE add_table_name(ParsedPredicate, table.table[1])

\* tokens[at:at] = new, for an index at >= 0 (from 0).
InsertAt(tokens, at, new) ==
    LET a == PyClamp(tokens, at) IN
    SubSeq(tokens, 1, a) \o new \o SubSeq(tokens, a + 1, Len(tokens))

\* Where([Token(Keyword, "WHERE"), Token(Whitespace, " "), rls])
WhereRls(found) == Where(<<Keyword("WHERE"), Space, found>>)

\* The predicate joined to the condition of a WHERE clause without the
\* parentheses.
InsertInWhereBare(token, found) ==
    [token EXCEPT !.tokens = token.tokens \o <<Space, Keyword("AND"), Space>> \o found.tokens]

\* The branch for a WHERE clause after a table with a predicate.
InsertInWhere(token, found) ==
    [token EXCEPT !.tokens =
        InsertAt(token.tokens, 1, <<Space, Token("Punctuation", "(")>>)
        \o <<Token("Punctuation", ")"), Space, Keyword("AND"), Space>> \o found.tokens]

\* The sibling that ends the comparisons of an ON clause.
EndsOn(sibling) ==
    \/ sibling.ttype = "Keyword" /\ ~(sibling.ttype = "Keyword" /\ sibling.value \in {"AND", "OR", "NOT"})
    \/ sibling.cls = "Where"

\* The branch for the keyword ON at position k (from 1) after a table with a
\* predicate.
InsertInOn(token_tokens, k, found) ==
    LET tokens == <<Space, found, Space, Keyword("AND"), Space, Token("Punctuation", "(")>>
        opened == InsertAt(token_tokens, (k - 1) + 1, tokens)
        i == (k - 1) + Len(tokens) + 2
        siblings == PySlice(opened, i, Len(opened))
        hits == {p \in 1..Len(siblings) : EndsOn(siblings[p])}
        j == IF hits # {} THEN ((CHOOSE p \in hits : \A q \in hits : p <= q) - 1) - 1
             ELSE IF siblings = <<>> THEN 0 ELSE Len(siblings) - 1
    IN  InsertAt(opened, i + j + 1, <<Space, Token("Punctuation", ")"), Space>>)

\* A subquery over a reference that keeps its alias inside.
AsSubqueryKeepingAlias(token, found) ==
    Identifier(<<
        Parenthesis(<<
            Token("Punctuation", "("), Token("DML", "SELECT"), Space,
            Token("Wildcard", "*"), Space, Keyword("FROM"), Space,
            token, Space, WhereRls(found), Token("Punctuation", ")")>>),
        Space, Keyword("AS"), Space,
        Identifier(<<Token("Name", IF token.cls = "Identifier"
                                   THEN token.tokens[Len(token.tokens)].value ELSE token.value)>>)>>)

\* The table of a reference replaced by a subquery over it.
AsSubquery(token, found) ==
    LET subquery_alias == IF token.cls = "Identifier"
                          THEN token.tokens[Len(token.tokens)].value ELSE token.value
        stripped == IF token.cls = "Identifier" /\ HasAlias(token)
                    THEN [token EXCEPT !.tokens = PySlice(token.tokens, 0, FirstWhitespace(token.tokens))]
                    ELSE token
    IN  Identifier(<<
            Parenthesis(<<
                Token("Punctuation", "("), Token("DML", "SELECT"), Space,
                Token("Wildcard", "*"), Space, Keyword("FROM"), Space,
                stripped, Space, WhereRls(found), Token("Punctuation", ")")>>),
            Space, Keyword("AS"), Space,
            Identifier(<<Token("Name", subquery_alias)>>)>>)

RECURSIVE insert_rls_as_subquery(_, _)
RECURSIVE insert_rls_in_predicate(_, _)

\* A local variable: the value is computed once and then read, as the
\* result of a call that is assigned to a name.
With(value, Rest(_)) == CHOOSE r \in {Rest(x) : x \in {value}} : TRUE

\* One pass of the loop of insert_rls_as_subquery over the token at
\* position k (from 1) of tokens.
SubqueryStep(tokens, k, state, found, db) ==
    With(IF IsTokenList(tokens[k]) THEN insert_rls_as_subquery(tokens[k], db) ELSE tokens[k],
    LAMBDA token :
    LET stored == [tokens EXCEPT ![k] = token]
    IN  IF IsSourceKeyword(token)
        THEN [tokens |-> stored, state |-> "SEEN_SOURCE", rls |-> found]
        ELSE IF state = "SEEN_SOURCE" /\ IsCandidate(token)
        THEN With(get_rls_for_table(token, db), LAMBDA new :
             IF Rls(new)
             THEN [tokens |-> [stored EXCEPT ![k] = AsSubquery(token, new)],
                   state |-> "SCANNING", rls |-> new]
             ELSE [tokens |-> stored, state |-> state, rls |-> new])
        ELSE IF state = "SEEN_SOURCE" /\ ~IsWhitespace(token)
        THEN [tokens |-> stored, state |-> "SCANNING", rls |-> found]
        ELSE [tokens |-> stored, state |-> state, rls |-> found])

\* One pass of the loop of insert_rls_in_predicate over the token at
\* position k (from 1) of tokens.
PredicateStep(tokens, k, state, found, db) ==
    With(IF IsTokenList(tokens[k]) THEN insert_rls_in_predicate(tokens[k], db) ELSE tokens[k],
    LAMBDA token :
    LET stored == [tokens EXCEPT ![k] = token]
    IN  IF IsSourceKeyword(token)
        THEN [tokens |-> stored, state |-> "SEEN_SOURCE", rls |-> found]
        ELSE IF state = "SEEN_SOURCE" /\ IsCandidate(token)
        THEN With(get_rls_for_table(token, db), LAMBDA new :
             [tokens |-> stored, state |-> IF Rls(new) THEN "FOUND_TABLE" ELSE state, rls |-> new])
        ELSE IF state = "FOUND_TABLE" /\ token.cls = "Where"
        THEN [tokens |-> [stored EXCEPT ![k] = InsertInWhere(token, found)],
              state |-> "SCANNING", rls |-> found]
        ELSE IF state = "FOUND_TABLE" /\ token.ttype = "Keyword" /\ token.value = "ON"
        THEN [tokens |-> InsertInOn(stored, k, found), state |-> "SCANNING", rls |-> found]
        ELSE IF state = "FOUND_TABLE" /\ ~IsWhitespace(token)
        THEN [tokens |-> InsertAt(stored, k - 1, <<Space, WhereRls(found), Space>>),
              state |-> "SCANNING", rls |-> found]
        ELSE IF state = "SEEN_SOURCE" /\ ~IsWhitespace(token)
        THEN [tokens |-> stored, state |-> "SCANNING", rls |-> found]
        ELSE [tokens |-> stored, state |-> state, rls |-> found])

\* A return that appends nothing.
PredicateEndAsIs(tokens, state, found) == tokens

\* After the loop of insert_rls_in_predicate: a table found at the end of
\* the statement gets a WHERE clause appended.
PredicateEnd(tokens, state, found) ==
    IF state = "FOUND_TABLE" THEN tokens \o <<Space, WhereRls(found)>> ELSE tokens

\* The loops from position k on; the list is read by position while it grows.
RECURSIVE SubqueryLoop(_, _, _, _, _)
SubqueryLoop(tokens, k, state, found, db) ==
    IF k > Len(tokens) THEN tokens
    ELSE With(SubqueryStep(tokens, k, state, found, db), LAMBDA s :
         SubqueryLoop(s.tokens, k + 1, s.state, s.rls, db))

RECURSIVE PredicateLoop(_, _, _, _, _)
PredicateLoop(tokens, k, state, found, db) ==
    IF k > Len(tokens) THEN PredicateEnd(tokens, state, found)
    ELSE With(PredicateStep(tokens, k, state, found, db), LAMBDA s :
         PredicateLoop(s.tokens, k + 1, s.state, s.rls, db))

insert_rls_as_subquery(token_list_, db) ==
    [token_list_ EXCEPT !.tokens = SubqueryLoop(token_list_.tokens, 1, "SCANNING", NoRls, db)]

insert_rls_in_predicate(token_list_, db) ==
    [token_list_ EXCEPT !.tokens = PredicateLoop(token_list_.tokens, 1, "SCANNING", NoRls, db)]

(***************************************************************************)
(* The statements the rewrites are called on, as sqlparse groups them:     *)
(*   SELECT * FROM ref {JOIN ref [ON c = 1]} [WHERE ...] [ORDER BY c]      *)
(* A reference is a plain, qualified or aliased table name, a table whose  *)
(* name is a keyword, or an aliased subquery; a WHERE clause holds a comparison or *)
(* a subquery; a Where group takes the whitespace that follows it.         *)
(***************************************************************************)
TableNames == {"t1", "t2", "user"}

Name(name) == Identifier(<<Token("Name", name)>>)
Aliased(token, alias) == Identifier(<<token, Space, Keyword("AS"), Space, Name(alias)>>)
Comparison == TokenList("Comparison", <<Name("c"), Token("Comparison", "="), Token("Integer", "1")>>)
SelectFrom == <<Token("DML", "SELECT"), Space, Token("Wildcard", "*"), Space, Keyword("FROM"), Space>>

Subqueries ==
    {Parenthesis(<<Token("Punctuation", "(")>> \o SelectFrom \o <<Name("t2")>> \o w
                 \o <<Token("Punctuation", ")")>>) :
        w \in {<<>>, <<Space, Where(<<Keyword("WHERE"), Space, Comparison>>)>>}}

FirstRefs ==
    {Name("t1"), Name("t2"), Keyword("user"),
     Aliased(Token("Name", "t1"), "a"),
     Identifier(<<Token("Name", "t1"), Space, Name("a")>>),
     Identifier(<<Token("Name", "main"), Token("Punctuation", "."), Token("Name", "t1")>>)}
    \cup {Aliased(q, "a") : q \in Subqueries}

\* The condition of a join: a comparison, or a test made of keywords.
IsNull == <<Name("c"), Space, Keyword("IS"), Space, Keyword("NULL")>>

JoinClauses ==
    {<<Space, Keyword("JOIN"), Space, Name(t)>> \o on :
        t \in {"t1", "t2"},
        on \in {<<>>, <<Space, Keyword("ON"), Space, Comparison>>, <<Space, Keyword("ON"), Space>> \o IsNull}}

RECURSIVE Joins(_)
Joins(n) == IF n = 0 THEN {<<>>} ELSE Joins(n - 1) \cup {js \o j : js \in Joins(n - 1) \ {<<>>}, j \in JoinClauses} \cup JoinClauses

Conditions == {<<Comparison>>} \cup {<<Name("c"), Space, Keyword("IN"), Space, q>> : q \in Subqueries}

\* The end of a statement: nothing, a WHERE clause, ORDER BY, or both.
Ends ==
    {<<>>, <<Space, Keyword("ORDER BY"), Space, Name("c")>>}
    \cup {<<Space, Where(<<Keyword("WHERE"), Space>> \o c)>> : c \in Conditions}
    \cup {<<Space, Where(<<Keyword("WHERE"), Space>> \o c \o <<Space>>), Keyword("ORDER BY"), Space, Name("c")>> :
            c \in Conditions}

\* The lexer gives a line break the type Whitespace.Newline and a run of
\* blanks the type Whitespace; a comment is a group of the class Comment.
LineBreak == Token("Newline", "nl")
CommentGroup == TokenList("Comment", <<Token("Comment", "/*c*/")>>)
Separators == {<<Space>>, <<LineBreak>>, <<LineBreak, Space>>, <<Space, CommentGroup, Space>>}

SelectStarFrom == <<Token("DML", "SELECT"), Space, Token("Wildcard", "*"), Space, Keyword("FROM")>>
SelectConstant == <<Token("DML", "SELECT"), Space, Token("Integer", "1")>>
InParentheses(tokens) == Parenthesis(<<Token("Punctuation", "(")>> \o tokens \o <<Token("Punctuation", ")")>>)

\* The statements: one table and joins; a table after a comment; a derived
\* table of constants; no table at all.
Statements ==
    {SelectFrom \o <<r>> \o js \o e : r \in FirstRefs, js \in Joins(MaxJoins), e \in Ends}
    \cup {SelectStarFrom \o <<Space, CommentGroup, Space, Name("t1")>>,
          SelectStarFrom \o <<Space, InParentheses(SelectConstant)>>,
          SelectConstant}

InitRls ==
    /\ comp = "rls"
    /\ TableIdle /\ KqlIdle /\ PqIdle /\ OthersIdle
    /\ mode \in {"predicate", "subquery"}
    /\ rls_tables \in SUBSET TableNames
    /\ token_list \in Statements
    /\ scan = token_list
    /\ original = token_list
    /\ r_k = 1
    /\ r_state = "SCANNING"
    /\ rls = NoRls
    /\ returned = <<>>
    /\ r_pc = "loop"
    /\ frames = <<>> /\ filters = <<>>

\* The loop works on the list of the argument itself: what it writes is
\* what the caller's tree holds.
Copied(callers, written) == callers
InPlace(callers, written) == written

\* One pass of the loop of insert_rls_in_predicate at the top level.
InPredicatePass ==
    /\ comp = "rls" /\ mode = "predicate" /\ r_pc = "loop" /\ r_k <= Len(scan)
    /\ \E s \in {PredicateStep(scan, r_k, r_state, rls, rls_tables)} :
        /\ scan' = s.tokens
        /\ token_list' = InPlace(token_list, s.tokens)
        /\ r_state' = s.state
        /\ rls' = s.rls
    /\ r_k' = r_k + 1
    /\ UNCHANGED <<mode, rls_tables, original, returned, r_pc, notRls, frames, filters>>

\* The end of insert_rls_in_predicate.
InPredicateReturn ==
    /\ comp = "rls" /\ mode = "predicate" /\ r_pc = "loop" /\ r_k > Len(scan)
    /\ scan' = PredicateEnd(scan, r_state, rls)
    /\ token_list' = InPlace(token_list, scan')
    /\ returned' = scan'
    /\ r_pc' = "done"
    /\ UNCHANGED <<mode, rls_tables, original, r_k, r_state, rls, notRls, frames, filters>>

\* One pass of the loop of insert_rls_as_subquery at the top level.
AsSubqueryPass ==
    /\ comp = "rls" /\ mode = "subquery" /\ r_pc = "loop" /\ r_k <= Len(scan)
    /\ \E s \in {SubqueryStep(scan, r_k, r_state, rls, rls_tables)} :
        /\ scan' = s.tokens
        /\ token_list' = InPlace(token_list, s.tokens)
        /\ r_state' = s.state
        /\ rls' = s.rls
    /\ r_k' = r_k + 1
    /\ UNCHANGED <<mode, rls_tables, original, returned, r_pc, notRls, frames, filters>>

\* The end of insert_rls_as_subquery.
AsSubqueryReturn ==
    /\ comp = "rls" /\ mode = "subquery" /\ r_pc = "loop" /\ r_k > Len(scan)
    /\ returned' = scan
    /\ r_pc' = "done"
    /\ UNCHANGED <<mode, rls_tables, token_list, scan, original, r_k, r_state, rls, notRls, frames, filters>>

NextRls == InPredicatePass \/ InPredicateReturn \/ AsSubqueryPass \/ AsSubqueryReturn

SpecRls == InitRls /\ [][NextRls]_vars

\* The text of a tree: the values of its leaves in order.
RECURSIVE Flatten(_)
FlattenAll(tokens) == Concat([p \in 1..Len(tokens) |-> Flatten(tokens[p])])
Flatten(token) == IF IsTokenList(token) THEN FlattenAll(token.tokens) ELSE <<token.value>>

(***************************************************************************)
(* Claims about the row level security rewrites.                           *)
(***************************************************************************)
\* token refers to table t: the keyword t, or a name whose last part before
\* any alias is t.
RefersTo(token, t) ==
    \/ token = Keyword(t)
    \/ /\ token.cls = "Identifier"
       /\ \E p \in 1..Len(token.tokens) :
            /\ token.tokens[p] = Token("Name", t)
            /\ \A m \in 1..p : ~IsWhitespace(token.tokens[m])
            /\ p = Len(token.tokens) \/ IsWhitespace(token.tokens[p + 1])

RECURSIVE SumOf(_)
SumOf(ns) == IF ns = <<>> THEN 0 ELSE Head(ns) + SumOf(Tail(ns))

\* The references to table t that directly follow FROM or JOIN, at any depth.
RECURSIVE References(_, _)
References(tokens, t) ==
    Cardinality({p \in 1..Len(tokens) :
        /\ IsSourceKeyword(tokens[p])
        /\ \E q \in (p + 1)..Len(tokens) :
            /\ RefersTo(tokens[q], t)
            /\ \A m \in (p + 1)..(q - 1) : IsWhitespace(tokens[m])})
    + SumOf([p \in 1..Len(tokens) |-> References(tokens[p].tokens, t)])

\* The predicate of table t, as text.
PredicateOf(t) == <<t, ".", "id", "=", "42">>

\* The places of a tree where the predicate of table t stands, at any depth.
RECURSIVE Applied(_, _)
Applied(tokens, t) ==
    Cardinality({p \in 1..Len(tokens) :
        tokens[p] = add_table_name(ParsedPredicate, t).tokens[1]})
    + SumOf([p \in 1..Len(tokens) |-> Applied(tokens[p].tokens, t)])

(* C1: after either rewrite returns, every table reference that directly
   follows FROM or JOIN, at any depth and in any position, and whose table
   has a predicate, has that predicate applied in the rewritten tree: the
   tree holds the predicate of a table at least as many times as the
   statement refers to the table. *)
C1_EveryReferenceFiltered ==
    r_pc = "done" =>
        \A t \in rls_tables : Applied(returned, t) >= References(original, t)

\* The same for insert_rls_as_subquery alone.
C1_EveryReferenceFilteredAsSubquery ==
    (r_pc = "done" /\ mode = "subquery") =>
        \A t \in rls_tables : Applied(returned, t) = References(original, t)

(* C2 as stated: rewriting does not mutate the tree the caller passed in:
   after either rewrite returns, the caller's tree has the tokens it had
   before the call. *)
C2_CallerTreeUntouched == r_pc = "done" => token_list = original

(* C2: the rewrites update the caller's tree in place: after either rewrite
   returns, the tree returned is the caller's own tree, which holds the
   rewritten tokens; whenever a predicate was applied it no longer has the
   tokens it had before the call. *)
C2_RewrittenInPlace ==
    r_pc = "done" =>
        /\ returned = token_list
        /\ (\E t \in rls_tables : Applied(returned, t) > 0) => token_list # original

C2_Witness ==
    /\ r_pc = "done"
    /\ returned = token_list
    /\ token_list # original
    /\ \E t \in rls_tables : Applied(token_list, t) > 0

(* C3: if no table the statement refers to after FROM or JOIN has a
   predicate, the rewrites leave the tree as it is: at every pass and on
   return the tokens are those of the input, none added, removed or
   replaced. *)
C3_NoPredicateNoChange ==
    (comp = "rls" /\ \A t \in rls_tables : References(original, t) = 0) =>
        /\ token_list = original
        /\ r_pc = "done" => returned = original

C3_Witness ==
    /\ r_pc = "done"
    /\ rls_tables # {}
    /\ \A t \in rls_tables : References(original, t) = 0
    /\ \E t \in TableNames : References(original, t) > 1
    /\ returned = original

\* A token list holds a FROM or a JOIN keyword at some depth.
RECURSIVE HasSource(_)
HasSource(tokens) ==
    \E p \in 1..Len(tokens) : IsSourceKeyword(tokens[p]) \/ HasSource(tokens[p].tokens)

(* C4: in predicate mode, when the state is FOUND_TABLE with predicate R and
   the token read is a WHERE clause with condition P, the pass rewrites the
   clause to WHERE ( P ) AND R: an opening parenthesis after WHERE, the
   whole condition, a closing parenthesis, AND and R; the clause stays where
   it is and the state becomes SCANNING.  P is the condition after the
   rewrite of the subqueries inside it, and the condition itself when it
   holds no subquery. *)
C4_WhereRewritten ==
    [][(/\ mode = "predicate" /\ r_pc = "loop" /\ r_k <= Len(scan)
        /\ r_state = "FOUND_TABLE" /\ scan[r_k].cls = "Where")
       => LET clause == scan[r_k]
              p == Tail(insert_rls_in_predicate(clause, rls_tables).tokens)
          IN  /\ Len(scan') = Len(scan)
              /\ scan'[r_k].cls = "Where"
              /\ scan'[r_k].tokens =
                    <<Keyword("WHERE"), Space, Token("Punctuation", "(")>> \o p
                    \o <<Token("Punctuation", ")"), Space, Keyword("AND"), Space>> \o rls.tokens
              /\ ~HasSource(clause.tokens) => p = Tail(clause.tokens)
              /\ \A q \in 1..Len(scan) : q # r_k => scan'[q] = scan[q]
              /\ r_state' = "SCANNING"]_vars

C4_Witness ==
    /\ mode = "predicate" /\ r_pc = "loop" /\ r_state = "SCANNING"
    /\ r_k > 1 /\ r_k - 1 <= Len(scan)
    /\ FlattenAll(original) = <<"SELECT", " ", "*", " ", "FROM", " ", "t1", " ", "WHERE", " ", "c", "=", "1">>
    /\ Flatten(scan[r_k - 1]) =
          <<"WHERE", " ", "(", " ", "c", "=", "1", ")", " ", "AND", " ", "t1", ".", "id", "=", "42">>

\* The text of a reference without its alias, and the name it goes by.
WithoutAlias(token) ==
    IF token.cls = "Identifier"
    THEN FlattenAll(SubSeq(token.tokens, 1, FirstWhitespace(token.tokens)))
    ELSE <<token.value>>

AliasOrName(token, t) ==
    IF token.cls = "Identifier" /\ \E p \in 1..Len(token.tokens) : IsWhitespace(token.tokens[p])
    THEN Flatten(token)[Len(Flatten(token))]
    ELSE t

(* C5: in subquery mode, when the state is SEEN_SOURCE and the token read is
   a reference to a table with predicate R, the pass replaces the reference,
   in the same position, by ( SELECT * FROM <reference without its alias>
   WHERE R ) AS <name>, the name being the alias of the reference when it
   has one and the name of its table otherwise; the state becomes SCANNING. *)
C5_ReplacedBySubquery ==
    [][\A t \in rls_tables :
        (/\ mode = "subquery" /\ r_pc = "loop" /\ r_k <= Len(scan)
         /\ r_state = "SEEN_SOURCE" /\ RefersTo(scan[r_k], t))
        => /\ Len(scan') = Len(scan)
           /\ Flatten(scan'[r_k]) =
                <<"(", "SELECT", " ", "*", " ", "FROM", " ">> \o WithoutAlias(scan[r_k])
                \o <<" ", "WHERE", " ">> \o PredicateOf(t)
                \o <<")", " ", "AS", " ", AliasOrName(scan[r_k], t)>>
           /\ \A q \in 1..Len(scan) : q # r_k => scan'[q] = scan[q]
           /\ r_state' = "SCANNING"]_vars

C5_Witness ==
    /\ mode = "subquery" /\ r_pc = "done"
    /\ FlattenAll(original) = <<"SELECT", " ", "*", " ", "FROM", " ", "t1", " ", "AS", " ", "a",
                                " ", "JOIN", " ", "t2">>
    /\ FlattenAll(returned) =
          <<"SELECT", " ", "*", " ", "FROM", " ",
            "(", "SELECT", " ", "*", " ", "FROM", " ", "t1", " ", "WHERE", " ", "t1", ".", "id", "=", "42", ")",
            " ", "AS", " ", "a", " ", "JOIN", " ",
            "(", "SELECT", " ", "*", " ", "FROM", " ", "t2", " ", "WHERE", " ", "t2", ".", "id", "=", "42", ")",
            " ", "AS", " ", "t2">>
--------------------------------------------------------------------------
(* SQLStatement, KustoKQLStatement and SQLScript *)

\* Longest text a script or a statement is built from.
MaxScriptLen == 4

Newline == "nl"
Whitespace == {" ", Newline}

\* The characters of a KQL text: a semicolon, a string delimiter, a space
\* and any other character.
KqlTextChars == {";", "'", " ", "a"}

\* The characters of a SQL text: a semicolon, a space, "s" for the tokens of
\* one statement sqlglot can parse and "x" for tokens it cannot.
SqlTextChars == {";", " ", "s", "x"}

\* split_kql as a function of the text: the loop from index i on.
RECURSIVE SplitKqlFrom(_, _, _, _, _)
SplitKqlFrom(q, i, state, start, found) ==
    IF i >= Len(q) THEN found
    ELSE SplitKqlFrom(q, i + 1, KqlNextState(state, q, i),
                      IF SplitsAt(state, PyAt(q, i)) THEN i + 1 ELSE start,
                      IF SplitsAt(state, PyAt(q, i)) THEN Append(found, PySlice(q, start, i)) ELSE found)

split_kql(text) ==
    SplitKqlFrom(IF EndsWithSemicolon(text) THEN text ELSE Append(text, ";"),
                 0, "OUTSIDE_STRING", 0, <<>>)

\* str.strip()
RECURSIVE LStrip(_)
LStrip(s) == IF s # <<>> /\ Head(s) \in Whitespace THEN LStrip(Tail(s)) ELSE s
RECURSIVE RStrip(_)
RStrip(s) == IF s # <<>> /\ s[Len(s)] \in Whitespace THEN RStrip(SubSeq(s, 1, Len(s) - 1)) ELSE s
Strip(s) == LStrip(RStrip(s))

Raised(error) == [raised |-> error, value |-> <<>>]
Returned(value) == [raised |-> "none", value |-> value]

\* len(statements) != 1
NotOneOrMore(found) == Len(found) < 1
NotOne(found) == Len(found) # 1

\* KustoKQLStatement._parse_statement
KqlParseStatement(statement, engine) ==
    IF engine # "kustokql" THEN Raised("SupersetParseError")
    ELSE IF NotOne(split_kql(statement)) THEN Raised("SupersetParseError")
    ELSE Returned(Strip(split_kql(statement)[1]))

\* sqlglot.parse: the tokens of the text are cut at the semicolons (one at
\* the very end opens no further statement); no tokens give None, the tokens
\* of one statement give its expression, anything else is a ParseError.
SqlTokens(text) == SelectSeq(text, LAMBDA c : c \notin Whitespace)

RECURSIVE SqlChunks(_, _)
SqlChunks(tokens, chunk) ==
    IF tokens = <<>> THEN <<chunk>>
    ELSE IF Head(tokens) = ";"
         THEN IF Len(tokens) = 1 THEN <<chunk>> ELSE <<chunk>> \o SqlChunks(Tail(tokens), <<>>)
         ELSE SqlChunks(Tail(tokens), Append(chunk, Head(tokens)))

Expression == <<"s">>

SqlglotParse(text) ==
    LET chunks == SqlChunks(SqlTokens(text), <<>>) IN
    IF \E n \in 1..Len(chunks) : chunks[n] \notin {<<>>, <<"s">>}
    THEN Raised("ParseError")
    ELSE Returned([n \in 1..Len(chunks) |-> IF chunks[n] = <<>> THEN None ELSE Expression])

\* [statement for statement in statements if statement]
NotNone(statement) == statement # None

\* SQLStatement._parse_statement
SqlParseStatement(statement, engine) ==
    IF SqlglotParse(statement).raised # "none" THEN Raised("SupersetParseError")
    ELSE IF NotOne(SelectSeq(SqlglotParse(statement).value, NotNone))
         THEN Raised("SupersetParseError")
    ELSE Returned(SelectSeq(SqlglotParse(statement).value, NotNone)[1])

\* BaseSQLStatement.__init__ with a text: the _parsed of the statement.
ParseStatement(class, statement, engine) ==
    IF class = "KustoKQLStatement" THEN KqlParseStatement(statement, engine)
    ELSE SqlParseStatement(statement, engine)

\* split_query of the two classes: the _parsed of the statements.
KqlSplitQuery(text, engine) ==
    LET parts == split_kql(text)
        each == [n \in 1..Len(parts) |-> KqlParseStatement(parts[n], engine)]
    IN  IF \E n \in 1..Len(parts) : each[n].raised # "none"
        THEN Raised("SupersetParseError")
        ELSE Returned([n \in 1..Len(parts) |-> each[n].value])

SqlSplitQuery(text, engine) ==
    IF SqlglotParse(text).raised # "none" THEN Raised("SupersetParseError")
    ELSE Returned(SelectSeq(SqlglotParse(text).value, NotNone))

SplitQuery(class, text, engine) ==
    IF class = "KustoKQLStatement" THEN KqlSplitQuery(text, engine) ELSE SqlSplitQuery(text, engine)

\* SQLScript.special_engines.get(engine, SQLStatement)
StatementClass(engine) == IF engine = "kustokql" THEN "KustoKQLStatement" ELSE "SQLStatement"

\* format of a statement: the text kept for KQL, the text generated from the
\* expression for SQL.
FormatStatement(class, parsed) == IF class = "KustoKQLStatement" THEN parsed ELSE <<"s">>

\* SQLScript.format
FormatScript(class, parsed) ==
    JoinWith(<<";", Newline>>, [n \in 1..Len(parsed) |-> FormatStatement(class, parsed[n])])
InitScript ==
    /\ comp = "script"
    /\ TableIdle /\ KqlIdle /\ PqIdle /\ RlsIdle /\ SettingsIdle /\ FnIdle
    /\ s_class \in {"KustoKQLStatement", "SQLStatement"}
    /\ s_engine \in {"kustokql", "postgresql"}
    /\ s_text \in StrsOver(IF s_class = "KustoKQLStatement" THEN KqlTextChars ELSE SqlTextChars,
                           MaxScriptLen)
    /\ s_statements = <<>> /\ s_formatted = <<>> /\ s_again = <<>> /\ s_parsed = <<>>
    /\ s_raised = "none"
    /\ s_pc = "start"

\* SQLScript(s_text, s_engine)
ScriptNew ==
    /\ comp = "script" /\ s_pc = "start" /\ s_class = StatementClass(s_engine)
    /\ \E r \in {SplitQuery(s_class, s_text, s_engine)} :
        /\ s_raised' = r.raised
        /\ s_statements' = r.value
        /\ s_pc' = IF r.raised = "none" THEN "script" ELSE "raised"
    /\ UNCHANGED <<notScript, s_class, s_engine, s_text, s_formatted, s_again, s_parsed>>

\* SQLScript.format()
ScriptFormat ==
    /\ comp = "script" /\ s_pc = "script"
    /\ s_formatted' = FormatScript(s_class, s_statements)
    /\ s_pc' = "formatted"
    /\ UNCHANGED <<notScript, s_class, s_engine, s_text, s_statements, s_again, s_parsed, s_raised>>

\* SQLScript(s_formatted, s_engine)
ScriptAgain ==
    /\ comp = "script" /\ s_pc = "formatted"
    /\ \E r \in {SplitQuery(s_class, s_formatted, s_engine)} :
        /\ s_raised' = r.raised
        /\ s_again' = r.value
        /\ s_pc' = IF r.raised = "none" THEN "again" ELSE "raised again"
    /\ UNCHANGED <<notScript, s_class, s_engine, s_text, s_statements, s_formatted, s_parsed>>

\* s_class(s_text, s_engine): a statement built from a text.
StatementNew ==
    /\ comp = "script" /\ s_pc = "start"
    /\ \E r \in {ParseStatement(s_class, s_text, s_engine)} :
        /\ s_raised' = r.raised
        /\ s_parsed' = r.value
        /\ s_pc' = IF r.raised = "none" THEN "statement" ELSE "statement raised"
    /\ UNCHANGED <<notScript, s_class, s_engine, s_text, s_statements, s_formatted, s_again>>

NextScript == ScriptNew \/ ScriptFormat \/ ScriptAgain \/ StatementNew

SpecScript == InitScript /\ [][NextScript]_vars

(* C12: splitting is stable under re-joining: the statements of a script,
   formatted and joined with semicolons, split again into the same number
   of statements as the first split found. *)
C12_SplitRejoinStable ==
    /\ s_pc = "again" => Len(s_again) = Len(s_statements)
    /\ s_pc # "raised again"

\* The same for SQLStatement alone.
C12_SplitRejoinStableSql ==
    s_class = "SQLStatement" =>
        /\ s_pc = "again" => Len(s_again) = Len(s_statements)
        /\ s_pc # "raised again"

\* The statements a text holds: for KQL the stretches split_kql finds, for
\* SQL the statements sqlglot finds that are not empty.
StatementsOf(class, text) ==
    IF class = "KustoKQLStatement" THEN split_kql(text)
    ELSE IF SqlglotParse(text).raised # "none" THEN <<>>
    ELSE SelectSeq(SqlglotParse(text).value, NotNone)

(* C13: a statement is built from a text only when the text splits into
   exactly one statement: when the split finds none or more than one, both
   classes raise SupersetParseError and no statement is returned; the
   statement returned is the one statement found. *)
C13_ParseOneExactlyOne ==
    /\ (s_pc \in {"statement", "statement raised"} /\ Len(StatementsOf(s_class, s_text)) # 1)
          => (s_pc = "statement raised" /\ s_raised = "SupersetParseError")
    /\ s_pc = "statement" =>
          /\ Len(StatementsOf(s_class, s_text)) = 1
          /\ s_parsed = IF s_class = "KustoKQLStatement"
                        THEN Strip(StatementsOf(s_class, s_text)[1])
                        ELSE StatementsOf(s_class, s_text)[1]

C13_Witness ==
    /\ s_pc = "statement raised" /\ s_class = "KustoKQLStatement" /\ s_engine = "kustokql"
    /\ s_raised = "SupersetParseError"
    /\ Len(split_kql(s_text)) = 2

\* The same for the KQL texts that hold no string delimiter.
C12_SplitRejoinStableNoString ==
    (\A n \in 1..Len(s_text) : s_text[n] # "'") =>
        /\ s_pc = "again" => Len(s_again) = Len(s_statements)
        /\ s_pc # "raised again"

\* The loop of split_kql, one character at a time, finds what split_kql finds.
KqlLoopIsSplitKql == k_pc = "done" => statements = split_kql(kql)
--------------------------------------------------------------------------
(* SQLScript.get_settings *)

\* Most statements of a script whose settings are read.
MaxStatements == 3

SettingNames == {"foo", "bar"}
SettingValues == {"'bar'", "'baz'"}

\* A dict over the setting names: a name it does not hold maps to Unset.
Unset == "unset"
Dicts == [SettingNames -> SettingValues \cup {Unset}]
EmptyDict == [n \in SettingNames |-> Unset]

\* dict.update that keeps the value a name already has.
UpdateMissing(dict, other) ==
    [n \in SettingNames |-> IF dict[n] # Unset THEN dict[n] ELSE other[n]]

\* dict.update(other)
Update(dict, other) ==
    [n \in SettingNames |-> IF other[n] # Unset THEN other[n] ELSE dict[n]]

InitSettings ==
    /\ comp = "settings"
    /\ TableIdle /\ KqlIdle /\ PqIdle /\ RlsIdle /\ ScriptIdle /\ FnIdle
    /\ g_statements \in UNION {[1..n -> Dicts] : n \in 0..MaxStatements}
    /\ g_i = 1
    /\ settings = EmptyDict
    /\ g_pc = "loop"

\* settings.update(statement.get_settings()) for the next statement.
SettingsUpdate ==
    /\ comp = "settings" /\ g_pc = "loop" /\ g_i <= Len(g_statements)
    /\ settings' = Update(settings, g_statements[g_i])
    /\ g_i' = g_i + 1
    /\ UNCHANGED <<notSettings, g_statements, g_pc>>

\* return settings
SettingsReturn ==
    /\ comp = "settings" /\ g_pc = "loop" /\ g_i > Len(g_statements)
    /\ g_pc' = "done"
    /\ UNCHANGED <<notSettings, g_statements, g_i, settings>>

NextSettings == SettingsUpdate \/ SettingsReturn

SpecSettings == InitSettings /\ [][NextSettings]_vars

\* The statements that assign a name.
Assigning(name) == {i \in 1..Len(g_statements) : g_statements[i][name] # Unset}

(* C14: get_settings accumulates the settings of the statements in source
   order: a name assigned by several statements has the value the last of
   them assigns, a name assigned by one statement has that statement's
   value, and a name no statement assigns is not in the result. *)
C14_LastAssignmentWins ==
    g_pc = "done" =>
        \A name \in SettingNames :
            IF Assigning(name) = {} THEN settings[name] = Unset
            ELSE \E i \in Assigning(name) :
                    /\ \A j \in Assigning(name) : j <= i
                    /\ settings[name] = g_statements[i][name]

C14_Witness ==
    /\ g_pc = "done" /\ Len(g_statements) = 3
    /\ g_statements[1]["foo"] = "'bar'" /\ g_statements[2]["foo"] = "'baz'"
    /\ g_statements[3]["foo"] = Unset /\ g_statements[3]["bar"] = "'bar'"
    /\ settings = [n \in SettingNames |-> IF n = "foo" THEN "'baz'" ELSE "'bar'"]
--------------------------------------------------------------------------
(* ParsedQuery.is_select and ParsedQuery.is_valid_ctas *)

\* Most statements of the text of a ParsedQuery.
MaxParsed == 2

\* What the two methods read of a statement sqlparse.parse returns:
\*   first   the type of its first token: the CTE keyword, a DML or a DDL
\*           keyword, the keyword USE, another keyword, or no keyword
\*   type    get_type(): SELECT, another known type, or UNKNOWN
\*   inner   the tokens of get_inner_cte_expression: none, only SELECT, a
\*           DDL token, a DML token other than SELECT
\*   ddl, dml, select   a top-level token is a DDL token, a DML token other
\*           than SELECT, the DML token SELECT
\* get_type() is SELECT or INSERT when the first token is that DML keyword
\* or the DML keyword after a CTE, CREATE when it is a DDL keyword, UNKNOWN
\* otherwise.
Stmt(first, type, inner, ddl, dml, select) ==
    [first |-> first, type |-> type, inner |-> inner, ddl |-> ddl, dml |-> dml, select |-> select]

ParsedStatements ==
    {Stmt("DML", "SELECT", "none", FALSE, FALSE, TRUE),
     Stmt("DML", "INSERT", "none", FALSE, TRUE, FALSE),
     Stmt("DDL", "CREATE", "none", TRUE, FALSE, FALSE)}
    \cup {Stmt("CTE", "SELECT", inner, FALSE, FALSE, TRUE) : inner \in {"none", "select", "ddl", "dml"}}
    \cup {Stmt("CTE", "INSERT", inner, FALSE, TRUE, FALSE) : inner \in {"none", "select", "ddl", "dml"}}
    \cup {Stmt("CTE", "UNKNOWN", inner, FALSE, FALSE, FALSE) : inner \in {"none", "select", "ddl", "dml"}}
    \cup {Stmt(first, "UNKNOWN", "none", ddl, dml, select) :
            first \in {"USE", "KEYWORD", "OTHER"}, ddl \in BOOLEAN, dml \in BOOLEAN, select \in BOOLEAN}

\* sqloxide: not installed, unable to parse the text (ValueError), or what
\* _check_cte_is_select returns for its parse.
Oxide == {"None", "ValueError", "select", "not select"}

\* return seen_select
ReturnTrue(seen_select) == TRUE
ReturnSeen(seen_select) == seen_select

\* imt(statement.tokens[0], t=Keyword): a keyword of any kind.
FirstIsKeyword(statement) == statement.first \in {"CTE", "DML", "DDL", "USE", "KEYWORD"}

\* The loop of is_select from statement i on.
RECURSIVE IsSelectFrom(_, _, _, _)
IsSelectFrom(parsed, oxide, i, seen_select) ==
    IF i > Len(parsed) THEN ReturnSeen(seen_select)
    ELSE LET statement == parsed[i] IN
        IF statement.first = "CTE" /\ oxide = "not select" THEN FALSE
        ELSE IF statement.first = "CTE" /\ statement.inner \in {"ddl", "dml"} THEN FALSE
        ELSE IF statement.type = "SELECT" THEN IsSelectFrom(parsed, oxide, i + 1, TRUE)
        ELSE IF statement.type # "UNKNOWN" THEN FALSE
        ELSE IF statement.ddl \/ statement.dml THEN FALSE
        ELSE IF statement.first = "USE" THEN IsSelectFrom(parsed, oxide, i + 1, seen_select)
        ELSE IF FirstIsKeyword(statement) THEN FALSE
        ELSE IF ~statement.select THEN FALSE
        ELSE IsSelectFrom(parsed, oxide, i + 1, seen_select)

is_select(parsed, oxide) == IsSelectFrom(parsed, oxide, 1, FALSE)

\* is_valid_ctas: parsed[-1] of an empty tuple raises IndexError.
is_valid_ctas(parsed) ==
    IF parsed = <<>> THEN Raised("IndexError")
    ELSE Returned(PyAt(parsed, -1).type = "SELECT")

InitQueryType ==
    /\ comp = "query type"
    /\ TableIdle /\ KqlIdle /\ PqIdle /\ RlsIdle /\ ScriptIdle /\ SettingsIdle
    /\ fn_in \in [parsed : UNION {[1..n -> ParsedStatements] : n \in 0..MaxParsed}, oxide : Oxide]
    /\ fn_out = <<>>
    /\ fn_pc = "call"

IsSelect ==
    /\ comp = "query type" /\ fn_pc = "call"
    /\ fn_out' = [fn |-> "is_select", raised |-> "none", value |-> is_select(fn_in.parsed, fn_in.oxide)]
    /\ fn_pc' = "done"
    /\ UNCHANGED <<notFn, fn_in>>

IsValidCtas ==
    /\ comp = "query type" /\ fn_pc = "call"
    /\ fn_out' = [fn |-> "is_valid_ctas", raised |-> is_valid_ctas(fn_in.parsed).raised,
                  value |-> is_valid_ctas(fn_in.parsed).value]
    /\ fn_pc' = "done"
    /\ UNCHANGED <<notFn, fn_in>>

NextQueryType == IsSelect \/ IsValidCtas

SpecQueryType == InitQueryType /\ [][NextQueryType]_vars

\* The statements the claims tell apart.
IsPlainSelect(statement) == statement.first # "CTE" /\ statement.type = "SELECT"

IsSelectCte(statement, oxide) ==
    /\ statement.first = "CTE" /\ statement.type = "SELECT"
    /\ statement.inner \notin {"ddl", "dml"} /\ oxide # "not select"

IsUse(statement) ==
    /\ statement.first = "USE" /\ statement.type = "UNKNOWN"
    /\ ~statement.ddl /\ ~statement.dml

\* An unknown-typed statement that starts with no keyword and holds a SELECT
\* token and no DDL token or other DML token.
IsUnknownWithSelect(statement) ==
    /\ statement.first = "OTHER" /\ statement.type = "UNKNOWN"
    /\ statement.select /\ ~statement.ddl /\ ~statement.dml

(* C15 as stated: is_select returns true if and only if every statement of
   the text is a SELECT, a CTE whose inner body is purely SELECT, or a USE
   statement. *)
C15_TrueIffEveryStatementSelects ==
    (fn_pc = "done" /\ fn_out.fn = "is_select") =>
        (fn_out.value <=>
            \A i \in 1..Len(fn_in.parsed) :
                \/ IsPlainSelect(fn_in.parsed[i])
                \/ IsSelectCte(fn_in.parsed[i], fn_in.oxide)
                \/ IsUse(fn_in.parsed[i]))

(* C15: is_select returns true if and only if some statement of the text has
   the type SELECT and every statement is a SELECT, a CTE of type SELECT
   whose inner body is purely SELECT, a USE statement, or an unknown-typed
   statement that starts with no keyword and holds a SELECT token; it
   returns false when any statement has another known type, holds a DDL
   token or a DML token other than SELECT where it is looked for, or is an
   unknown-typed statement that starts with a keyword other than USE, and
   when no statement has the type SELECT. *)
C15_TrueIffSelectSeenAndAllAllowed ==
    (fn_pc = "done" /\ fn_out.fn = "is_select") =>
        (fn_out.value <=>
            /\ \E i \in 1..Len(fn_in.parsed) : fn_in.parsed[i].type = "SELECT"
            /\ \A i \in 1..Len(fn_in.parsed) :
                \/ IsPlainSelect(fn_in.parsed[i])
                \/ IsSelectCte(fn_in.parsed[i], fn_in.oxide)
                \/ IsUse(fn_in.parsed[i])
                \/ IsUnknownWithSelect(fn_in.parsed[i]))

C15_Witness ==
    /\ fn_pc = "done" /\ fn_out.fn = "is_select" /\ fn_out.value
    /\ Len(fn_in.parsed) = 2
    /\ IsUse(fn_in.parsed[1])
    /\ IsSelectCte(fn_in.parsed[2], fn_in.oxide)

(* C19: is_valid_ctas returns true if and only if the last statement of the
   text is a SELECT, whatever the earlier statements are, and returns a
   boolean, without failing, for every text, a text with no statement
   included. *)
C19_LastStatementSelectNeverFails ==
    (fn_pc = "done" /\ fn_out.fn = "is_valid_ctas") =>
        /\ fn_out.raised = "none"
        /\ fn_out.value \in BOOLEAN
        /\ fn_out.value <=>
              (fn_in.parsed # <<>> /\ fn_in.parsed[Len(fn_in.parsed)].type = "SELECT")

\* The same for the texts that hold a statement.
C19_LastStatementSelect ==
    (fn_pc = "done" /\ fn_out.fn = "is_valid_ctas" /\ fn_in.parsed # <<>>) =>
        /\ fn_out.raised = "none"
        /\ fn_out.value <=> (fn_in.parsed[Len(fn_in.parsed)].type = "SELECT")

(* ParsedQuery.set_or_update_query_limit and _extract_limit_from_query *)

MaxLimit == 11

\* Texts are sequences of characters; int() and str() on decimal numerals.
Digits == <<"0", "1", "2", "3", "4", "5", "6", "7", "8", "9">>
DigitOf(c) == (CHOOSE d \in 1..Len(Digits) : Digits[d] = c) - 1

RECURSIVE IntOf(_)
IntOf(s) ==
    IF s = <<>> THEN 0
    ELSE IntOf(SubSeq(s, 1, Len(s) - 1)) * Len(Digits) + DigitOf(s[Len(s)])

RECURSIVE StrOf(_)
StrOf(n) ==
    IF n < Len(Digits) THEN <<Digits[n + 1]>>
    ELSE StrOf(n \div Len(Digits)) \o <<Digits[(n % Len(Digits)) + 1]>>

\* str.lower() on the letters the texts below hold.
LowerChar(c) ==
    CASE c = "L" -> "l" [] c = "I" -> "i" [] c = "M" -> "m" [] c = "T" -> "t"
      [] c = "S" -> "s" [] c = "E" -> "e" [] c = "C" -> "c" [] c = "A" -> "a"
      [] c = "O" -> "o" [] c = "F" -> "f" [] OTHER -> c
Lower(s) == [p \in 1..Len(s) |-> LowerChar(s[p])]

\* A leaf token and an IdentifierList group; value is the token's text.
Lexeme(ttype, value) == [cls |-> "Token", ttype |-> ttype, value |-> value, tokens |-> <<>>]
IdentifierList(tokens) ==
    [cls |-> "IdentifierList", ttype |-> "None",
     value |-> Concat([p \in 1..Len(tokens) |-> tokens[p].value]), tokens |-> tokens]

\* str(statement): the text of the tokens, one after the other.
TextOf(tokens) == Concat([p \in 1..Len(tokens) |-> tokens[p].value])

\* statement.token_next(idx): the index of the first token after idx
\* that is not whitespace, 0 when there is none (None).
TokenNext(tokens, idx) ==
    IF \E p \in (idx + 1)..Len(tokens) : tokens[p].ttype # "Whitespace"
    THEN CHOOSE p \in (idx + 1)..Len(tokens) :
            /\ tokens[p].ttype # "Whitespace"
            /\ \A q \in (idx + 1)..(p - 1) : tokens[q].ttype = "Whitespace"
    ELSE 0

\* The index of the first token of the level that is the keyword LIMIT, in
\* any case, 0 when there is none.
LimitPos(tokens) ==
    IF \E p \in 1..Len(tokens) : tokens[p].ttype = "Keyword" /\ Lower(tokens[p].value) = <<"l", "i", "m", "i", "t">>
    THEN CHOOSE p \in 1..Len(tokens) :
            /\ tokens[p].ttype = "Keyword" /\ Lower(tokens[p].value) = <<"l", "i", "m", "i", "t">>
            /\ \A q \in 1..(p - 1) :
                ~(tokens[q].ttype = "Keyword" /\ Lower(tokens[q].value) = <<"l", "i", "m", "i", "t">>)
    ELSE 0

\* The index of the first comma of the level, 0 when there is none.
CommaPos(tokens) ==
    IF \E p \in 1..Len(tokens) : tokens[p].ttype = "Punctuation" /\ tokens[p].value = <<",">>
    THEN CHOOSE p \in 1..Len(tokens) :
            /\ tokens[p].ttype = "Punctuation" /\ tokens[p].value = <<",">>
            /\ \A q \in 1..(p - 1) : ~(tokens[q].ttype = "Punctuation" /\ tokens[q].value = <<",">>)
    ELSE 0

\* The limit of a statement: {} for None, {L} for the integer L.
IntegerLimit(tokens, p) ==
    IF p # 0 /\ tokens[p].ttype = "Integer" THEN {IntOf(tokens[p].value)} ELSE {}

extract_limit_from_query(statement) ==
    IF LimitPos(statement) = 0 \/ TokenNext(statement, LimitPos(statement)) = 0 THEN {}
    ELSE LET token == statement[TokenNext(statement, LimitPos(statement))] IN
        IF token.cls = "IdentifierList"
        THEN IntegerLimit(token.tokens, TokenNext(token.tokens, CommaPos(token.tokens)))
        ELSE IntegerLimit(statement, TokenNext(statement, LimitPos(statement)))

\* if not self._limit: None and 0 are both false.
NotLimit(limit) == limit = {} \/ limit = {0}

\* self.sql.strip(" \t\r\n;")
StrippedChars == {" ", Newline, ";"}
RECURSIVE StripRight(_)
StripRight(s) == IF s # <<>> /\ s[Len(s)] \in StrippedChars THEN StripRight(SubSeq(s, 1, Len(s) - 1)) ELSE s
RECURSIVE StripLeft(_)
StripLeft(s) == IF s # <<>> /\ Head(s) \in StrippedChars THEN StripLeft(Tail(s)) ELSE s
stripped(sql) == StripLeft(StripRight(sql))

\* next(limit.get_identifiers()): the first token of the list that is
\* neither whitespace nor a comma.
FirstIdentifier(tokens) ==
    tokens[CHOOSE p \in 1..Len(tokens) :
              /\ tokens[p].ttype \notin {"Whitespace", "Punctuation"}
              /\ \A q \in 1..(p - 1) : tokens[q].ttype \in {"Whitespace", "Punctuation"}]

\* The value the limit token has after the update.
UpdatedLimit(limit, new_limit, force) ==
    IF limit.ttype = "Integer" /\ (force \/ new_limit < IntOf(limit.value))
    THEN StrOf(new_limit)
    ELSE IF limit.cls = "IdentifierList"
    THEN FirstIdentifier(limit.tokens).value \o <<",", " ">> \o StrOf(new_limit)
    ELSE limit.value

\* statement is self._parsed[0]. When it holds no LIMIT keyword, limit_pos
\* is None, token_next(idx=None) returns (None, None) and limit.ttype
\* raises AttributeError.
set_or_update_query_limit(sql, statement, limit, new_limit, force) ==
    IF NotLimit(limit)
    THEN Returned(stripped(sql) \o <<Newline>> \o <<"L", "I", "M", "I", "T", " ">> \o StrOf(new_limit))
    ELSE IF LimitPos(statement) = 0 THEN Raised("AttributeError")
    ELSE Returned(TextOf([p \in 1..Len(statement) |->
            IF p = TokenNext(statement, LimitPos(statement))
            THEN [statement[p] EXCEPT !.value = UpdatedLimit(statement[p], new_limit, force)]
            ELSE statement[p]]))

\* The texts: SELECT 1, then no limit clause, LIMIT and an integer, LIMIT
\* and "offset, integer", or LIMIT ALL, then OFFSET 5 or nothing; the
\* statement is what sqlparse.parse returns for the stripped text. A text
\* of two statements has before it SELECT 1 with its semicolon, with a limit
\* clause or without.
Numerals == {StrOf(n) : n \in 0..MaxLimit} \cup {<<"0">> \o StrOf(n) : n \in 0..MaxLimit}
Blank == Lexeme("Whitespace", <<" ">>)
Integer(value) == Lexeme("Integer", value)
SelectOne == <<Lexeme("DML", <<"S", "E", "L", "E", "C", "T">>), Blank, Integer(<<"1">>)>>
LimitKeywords == {Lexeme("Keyword", <<"L", "I", "M", "I", "T">>), Lexeme("Keyword", <<"l", "i", "m", "i", "t">>)}
LimitTokens ==
    {Integer(numeral) : numeral \in Numerals}
    \cup {IdentifierList(<<Integer(<<"5">>), Lexeme("Punctuation", <<",">>), Blank, Integer(numeral)>>) :
            numeral \in Numerals}
    \cup {Lexeme("Keyword", <<"A", "L", "L">>)}
LimitClauses == {<<>>} \cup {<<Blank, keyword, Blank, token>> : keyword \in LimitKeywords, token \in LimitTokens}
OffsetClauses == {<<>>, <<Blank, Lexeme("Keyword", <<"O", "F", "F", "S", "E", "T">>), Blank, Integer(<<"5">>)>>}
LimitStatements == {SelectOne \o limit \o offset : limit \in LimitClauses, offset \in OffsetClauses}
Tails == {<<>>, <<";">>, <<" ", ";", Newline>>}
FirstStatements ==
    {SelectOne \o limit \o <<Lexeme("Punctuation", <<";">>)>> :
        limit \in {<<>>, <<Blank, Lexeme("Keyword", <<"L", "I", "M", "I", "T">>), Blank, Integer(<<"7">>)>>}}
LimitQueries ==
    {<<statement>> : statement \in LimitStatements}
    \cup {<<first, statement>> : first \in FirstStatements, statement \in LimitStatements}

InitLimit ==
    /\ comp = "limit"
    /\ TableIdle /\ KqlIdle /\ PqIdle /\ RlsIdle /\ ScriptIdle /\ SettingsIdle
    /\ \E parsed \in LimitQueries, tail \in Tails, new_limit \in 0..MaxLimit, force \in BOOLEAN :
        fn_in = [sql |-> Concat([p \in 1..Len(parsed) |-> TextOf(parsed[p])]) \o tail, parsed |-> parsed,
                 new_limit |-> new_limit, force |-> force]
    /\ fn_out = <<>>
    /\ fn_pc = "new"

\* ParsedQuery.__init__: the limit of the last statement.
ParsedQueryNew ==
    /\ comp = "limit" /\ fn_pc = "new"
    /\ fn_out' = [limit |-> extract_limit_from_query(PyAt(fn_in.parsed, -1)), returned |-> None,
                  raised |-> "none"]
    /\ fn_pc' = "parsed"
    /\ UNCHANGED <<notFn, fn_in>>

SetOrUpdateQueryLimit ==
    /\ comp = "limit" /\ fn_pc = "parsed"
    /\ \E r \in {set_or_update_query_limit(fn_in.sql, fn_in.parsed[1], fn_out.limit,
                                            fn_in.new_limit, fn_in.force)} :
        fn_out' = [fn_out EXCEPT !.returned = r.value, !.raised = r.raised]
    /\ fn_pc' = "done"
    /\ UNCHANGED <<notFn, fn_in>>

NextLimit == ParsedQueryNew \/ SetOrUpdateQueryLimit

SpecLimit == InitLimit /\ [][NextLimit]_vars

\* The positions of a text where the word LIMIT starts, in any case.
LimitWords(text) ==
    {p \in 1..(Len(text) - 4) : Lower(SubSeq(text, p, p + 4)) = <<"l", "i", "m", "i", "t">>}

\* The decimal numeral of a text from position p on, after blanks.
RECURSIVE NumeralAt(_, _)
NumeralAt(text, p) ==
    IF p > Len(text) THEN <<>>
    ELSE IF text[p] \in {" ", Newline} THEN NumeralAt(text, p + 1)
    ELSE IF \E d \in 1..Len(Digits) : Digits[d] = text[p]
    THEN <<text[p]>> \o (IF p < Len(text) /\ text[p + 1] \notin {" ", Newline} THEN NumeralAt(text, p + 1) ELSE <<>>)
    ELSE <<>>

\* The statement has the limit clause "LIMIT L" with an integer token L.
HasIntegerLimit ==
    /\ Len(fn_in.parsed) = 1
    /\ LimitPos(fn_in.parsed[1]) # 0
    /\ fn_in.parsed[1][TokenNext(fn_in.parsed[1], LimitPos(fn_in.parsed[1]))].ttype = "Integer"

ExistingLimit == IntOf(fn_in.parsed[1][TokenNext(fn_in.parsed[1], LimitPos(fn_in.parsed[1]))].value)

\* The stripped text with the numeral of its limit clause replaced.
WithLimit(numeral) ==
    TextOf([p \in 1..Len(fn_in.parsed[1]) |->
        IF p = TokenNext(fn_in.parsed[1], LimitPos(fn_in.parsed[1]))
        THEN Integer(numeral) ELSE fn_in.parsed[1][p]])

LimitUpdated ==
    /\ fn_out.returned =
        IF fn_in.force \/ fn_in.new_limit < ExistingLimit
        THEN WithLimit(StrOf(fn_in.new_limit)) ELSE stripped(fn_in.sql)
    /\ Cardinality(LimitWords(fn_out.returned)) = 1
    /\ ~fn_in.force =>
        \A p \in LimitWords(fn_out.returned) : IntOf(NumeralAt(fn_out.returned, p + 5)) <= ExistingLimit

(* C16: for a statement with an existing integer limit L, whatever L is (0
   included), set_or_update_query_limit(n, force) returns the text with
   limit n when force is set or n < L and the text unchanged otherwise; the
   returned text has a single LIMIT clause and, without force, a limit that
   is not greater than L. *)
C16_LimitUpdatedForEveryLimit ==
    (fn_pc = "done" /\ comp = "limit" /\ HasIntegerLimit) => LimitUpdated

\* The same for the limits other than 0.
C16_LimitUpdatedForPositiveLimit ==
    (fn_pc = "done" /\ comp = "limit" /\ HasIntegerLimit /\ ExistingLimit > 0) => LimitUpdated

(* sanitize_clause *)

MaxClauseTokens == 3

\* A group of tokens; its value is its text.
Grouped(cls, tokens) == [cls |-> cls, ttype |-> "None", value |-> TextOf(tokens), tokens |-> tokens]

OpenParen == Lexeme("Punctuation", <<"(">>)
CloseParen == Lexeme("Punctuation", <<")">>)
Star == Lexeme("Wildcard", <<"*">>)
Slash == Lexeme("Operator", <<"/">>)
Semicolon == Lexeme("Punctuation", <<";">>)
NameA == Lexeme("Name", <<"a">>)

\* The tokens of a statement sqlparse.parse returns: a parenthesis that has
\* its pair is grouped with it in a Parenthesis, one that has none stays a
\* token of the level it is at, which is the level of the statement or the
\* inside of another group, such as the Case that groups everything from
\* CASE to END; a string literal and a comment are one token each.
ClauseTokens ==
    {NameA, OpenParen, CloseParen, Star, Slash,
     Grouped("Parenthesis", <<OpenParen, NameA, CloseParen>>),
     Grouped("Case", <<Lexeme("Keyword", <<"C", "A", "S", "E">>), Blank, OpenParen, NameA, Blank,
                       Lexeme("Keyword", <<"E", "N", "D">>)>>),
     Lexeme("Single", <<"'", "(", "'">>),
     Lexeme("Comment", <<"/", "*", "c", "*", "/">>),
     Lexeme("Comment", <<"-", "-", "c", Newline>>)}

\* An opening parenthesis of a level is never followed, at that level, by a
\* closing one: the two would be a Parenthesis.
Ungrouped(tokens) ==
    \A p \in 1..Len(tokens), q \in 1..Len(tokens) : ~(p < q /\ tokens[p] = OpenParen /\ tokens[q] = CloseParen)

ClauseStatements ==
    {tokens \in UNION {[1..n -> ClauseTokens] : n \in 1..MaxClauseTokens} : Ungrouped(tokens)}

\* No statement (an empty text), one statement, with its semicolon or
\* without, or two statements.
Clauses ==
    {<<>>}
    \cup {<<statement>> : statement \in ClauseStatements}
    \cup {<<statement \o <<Semicolon>>>> : statement \in ClauseStatements}
    \cup {<<statement \o <<Semicolon>>, <<NameA>>>> : statement \in ClauseStatements}

IsComment(token) == token.ttype = "Comment"

\* The loop of sanitize_clause from token i on: the error it raises, "none"
\* when it ends.
RECURSIVE ScanClause(_, _, _)
ScanClause(tokens, i, open_parens) ==
    IF i > Len(tokens)
    THEN IF open_parens > 0 THEN "Unclosed parenthesis in filter clause" ELSE "none"
    ELSE IF tokens[i].value = <<"/">> /\ i > 1 /\ tokens[i - 1].value = <<"*">>
    THEN "Closing unopened multiline comment"
    ELSE IF tokens[i].value = <<"*">> /\ i > 1 /\ tokens[i - 1].value = <<"/">>
    THEN "Unclosed multiline comment"
    ELSE IF tokens[i].value = <<"(">> THEN ScanClause(tokens, i + 1, open_parens + 1)
    ELSE IF tokens[i].value = <<")">>
    THEN IF open_parens - 1 < 0 THEN "Closing unclosed parenthesis in filter clause"
         ELSE ScanClause(tokens, i + 1, open_parens - 1)
    ELSE ScanClause(tokens, i + 1, open_parens)

sanitize_clause(clause, parsed) ==
    IF Len(parsed) # 1 THEN Raised("Clause contains multiple statements")
    ELSE IF ScanClause(parsed[1], 1, 0) # "none" THEN Raised(ScanClause(parsed[1], 1, 0))
    ELSE IF IsComment(PyAt(parsed[1], -1)) /\ PyAt(PyAt(parsed[1], -1).value, -1) # Newline
    THEN Returned(clause \o <<Newline>>)
    ELSE Returned(clause)

InitClause ==
    /\ comp = "clause"
    /\ TableIdle /\ KqlIdle /\ PqIdle /\ RlsIdle /\ ScriptIdle /\ SettingsIdle
    /\ \E parsed \in Clauses :
        fn_in = [clause |-> Concat([p \in 1..Len(parsed) |-> TextOf(parsed[p])]),
                 statements |-> parsed]
    /\ fn_out = <<>>
    /\ fn_pc = "call"

SanitizeClause ==
    /\ comp = "clause" /\ fn_pc = "call"
    /\ fn_out' = sanitize_clause(fn_in.clause, fn_in.statements)
    /\ fn_pc' = "done"
    /\ UNCHANGED <<notFn, fn_in>>

SpecClause == InitClause /\ [][SanitizeClause]_vars

\* The tokens of a tree that are no groups, in the order of the text.
RECURSIVE Leaves(_)
Leaves(tokens) ==
    IF tokens = <<>> THEN <<>>
    ELSE (IF Head(tokens).tokens # <<>> THEN Leaves(Head(tokens).tokens) ELSE <<Head(tokens)>>)
         \o Leaves(Tail(tokens))

\* No closing parenthesis with no opening one pending, and no opening one
\* pending at the end; the parentheses are the punctuation tokens, not the
\* characters of a string literal or of a comment.
RECURSIVE BalancedFrom(_, _, _)
BalancedFrom(tokens, i, pending) ==
    IF i > Len(tokens) THEN pending = 0
    ELSE IF tokens[i] = OpenParen THEN BalancedFrom(tokens, i + 1, pending + 1)
    ELSE IF tokens[i] = CloseParen THEN pending > 0 /\ BalancedFrom(tokens, i + 1, pending - 1)
    ELSE BalancedFrom(tokens, i + 1, pending)

Balanced(tokens) == BalancedFrom(tokens, 1, 0)

ClauseLeaves == Leaves(Concat(fn_in.statements))

(* C17: sanitize_clause raises, and returns nothing, for every fragment
   whose parentheses are unbalanced and for every fragment that is not
   exactly one statement; a fragment it returns has balanced parentheses. *)
C17_UnbalancedOrNotOneRaises ==
    (fn_pc = "done" /\ comp = "clause") =>
        /\ (~Balanced(ClauseLeaves) \/ Len(fn_in.statements) # 1) => fn_out.raised # "none"
        /\ fn_out.raised = "none" => Balanced(ClauseLeaves)

\* The same for the parentheses that are tokens of the statement itself.
C17_UnbalancedAtStatementLevelRaises ==
    (fn_pc = "done" /\ comp = "clause") =>
        ((Len(fn_in.statements) # 1 \/ ~Balanced(SelectSeq(fn_in.statements[1], LAMBDA token : token.tokens = <<>>)))
            => fn_out.raised # "none")

(* has_table_query *)

MaxDepth == 1

\* The loop of has_table_query from token i on.
RECURSIVE HasTableQueryFrom(_, _, _)
HasTableQueryFrom(tokens, i, state) ==
    IF i > Len(tokens) THEN FALSE
    ELSE IF tokens[i].cls = "Comment" THEN HasTableQueryFrom(tokens, i + 1, state)
    ELSE IF IsTokenList(tokens[i]) /\ HasTableQueryFrom(tokens[i].tokens, 1, "SCANNING") THEN TRUE
    ELSE IF IsSourceKeyword(tokens[i]) THEN HasTableQueryFrom(tokens, i + 1, "SEEN_SOURCE")
    ELSE IF state = "SEEN_SOURCE" /\ IsCandidate(tokens[i]) THEN TRUE
    ELSE IF state = "SEEN_SOURCE" /\ ~IsWhitespace(tokens[i]) THEN HasTableQueryFrom(tokens, i + 1, "SCANNING")
    ELSE HasTableQueryFrom(tokens, i + 1, state)

has_table_query(tlist) == HasTableQueryFrom(tlist, 1, "SCANNING")

\* What follows FROM or JOIN: a table, a keyword that names a table, a list
\* of tables, a derived table of constants, or a derived table that reads
\* from one of these, down to the given depth.
RECURSIVE SourcesAt(_)
SourcesAt(depth) ==
    {Name("t1"), Keyword("user"), InParentheses(SelectConstant),
     TokenList("IdentifierList", <<Name("t1"), Token("Punctuation", ","), Space, Name("t2")>>)}
    \cup (IF depth = 0 THEN {}
          ELSE {InParentheses(SelectStarFrom \o sep \o <<source>>) :
                    sep \in Separators, source \in SourcesAt(depth - 1)})

TableQueries ==
    {SelectConstant,
     <<TokenList("Function", <<Name("COUNT"), InParentheses(<<Token("Wildcard", "*")>>)>>)>>}
    \cup {SelectStarFrom \o sep \o <<source>> : sep \in Separators, source \in SourcesAt(MaxDepth)}
    \cup {SelectStarFrom \o sep \o <<source, Space, Keyword("JOIN")>> \o other \o <<joined>> :
            sep \in Separators, source \in SourcesAt(MaxDepth),
            other \in Separators, joined \in SourcesAt(0)}

InitTableQuery ==
    /\ comp = "table query"
    /\ TableIdle /\ KqlIdle /\ PqIdle /\ RlsIdle /\ ScriptIdle /\ SettingsIdle
    /\ \E tlist \in TableQueries : fn_in = [token_list |-> tlist]
    /\ fn_out = <<>>
    /\ fn_pc = "call"

HasTableQuery ==
    /\ comp = "table query" /\ fn_pc = "call"
    /\ fn_out' = [returned |-> has_table_query(fn_in.token_list)]
    /\ fn_pc' = "done"
    /\ UNCHANGED <<notFn, fn_in>>

SpecTableQuery == InitTableQuery /\ [][HasTableQuery]_vars

\* At this level of the tree, FROM or JOIN is followed by an identifier or
\* a keyword token with nothing but comments and tokens of the given
\* whitespace types in between.
FollowedAtLevel(tokens, blanks) ==
    \E p \in 1..Len(tokens), q \in 1..Len(tokens) :
        /\ p < q /\ IsSourceKeyword(tokens[p]) /\ IsCandidate(tokens[q])
        /\ \A r \in (p + 1)..(q - 1) : tokens[r].ttype \in blanks \/ tokens[r].cls = "Comment"

RECURSIVE FollowedAtAnyDepth(_, _)
FollowedAtAnyDepth(tokens, blanks) ==
    \/ FollowedAtLevel(tokens, blanks)
    \/ \E p \in 1..Len(tokens) : IsTokenList(tokens[p]) /\ FollowedAtAnyDepth(tokens[p].tokens, blanks)

(* C18: has_table_query returns true if and only if, at some depth of the
   token tree, FROM or JOIN is followed, with only whitespace or comments in
   between, by an identifier or a keyword token; it returns false for a tree
   with no FROM or JOIN and for one followed only by a derived table of
   constants. *)
C18_TrueIffSourceFollowedByTable ==
    (fn_pc = "done" /\ comp = "table query") =>
        (fn_out.returned <=> FollowedAtAnyDepth(fn_in.token_list, {"Whitespace", "Newline"}))

\* The same with only whitespace of the type Whitespace, which a line break
\* is not, or comments in between.
C18_TrueIffSourceFollowedOnSameLine ==
    (fn_pc = "done" /\ comp = "table query") =>
        (fn_out.returned <=> FollowedAtAnyDepth(fn_in.token_list, {"Whitespace"}))

\* The pass reads, after FROM or JOIN, an identifier or a keyword for which
\* the lookup returns no predicate.
LookupMisses ==
    /\ comp = "rls" /\ r_pc = "loop" /\ r_k <= Len(scan)
    /\ r_state = "SEEN_SOURCE"
    /\ ~IsSourceKeyword(scan[r_k]) /\ IsCandidate(scan[r_k])
    /\ ~Rls(get_rls_for_table(
            IF ~IsTokenList(scan[r_k]) THEN scan[r_k]
            ELSE IF mode = "predicate" THEN insert_rls_in_predicate(scan[r_k], rls_tables)
            ELSE insert_rls_as_subquery(scan[r_k], rls_tables),
            rls_tables))

(* C20: in the RLS scan, when the token after FROM or JOIN is an identifier
   or a keyword whose lookup returns no predicate, the state goes back to
   SCANNING and the token is left as it is, so that a later identifier or
   keyword is a candidate only after another FROM or JOIN. *)
C20_LookupMissBackToScanning ==
    [][LookupMisses =>
        /\ r_state' = "SCANNING"
        /\ \A q \in 1..Len(scan) : q # r_k => scan'[q] = scan[q]
        /\ Len(scan') = Len(scan)]_vars

\* What the pass does: the tokens around stay and so does the state.
C20_LookupMissStaysSeenSource ==
    [][LookupMisses =>
        /\ r_state' = "SEEN_SOURCE"
        /\ \A q \in 1..Len(scan) : q # r_k => scan'[q] = scan[q]
        /\ Len(scan') = Len(scan)]_vars

\* In predicate mode the pass reads the keyword ON after a table with a
\* predicate.
OnMet ==
    /\ comp = "rls" /\ mode = "predicate" /\ r_pc = "loop" /\ r_k <= Len(scan)
    /\ r_state = "FOUND_TABLE"
    /\ scan[r_k].ttype = "Keyword" /\ scan[r_k].value = "ON"

\* The position of the first token after position k that is a WHERE clause
\* or a keyword that is none of the given ones (kept) or that is one of the
\* given ones (not kept); the position after the last token when there is none.
FirstAfter(tokens, k, words, kept) ==
    LET hits == {p \in (k + 1)..Len(tokens) :
                    \/ tokens[p].cls = "Where"
                    \/ tokens[p].ttype = "Keyword" /\ ((tokens[p].value \in words) # kept)}
    IN  IF hits = {} THEN Len(tokens) + 1 ELSE CHOOSE p \in hits : \A q \in hits : p <= q

\* The list with "R AND (" after position k and ")" before position e.
OnEnclosed(tokens, k, found, e) ==
    SubSeq(tokens, 1, k)
    \o <<Space, found, Space, Keyword("AND"), Space, Token("Punctuation", "(")>>
    \o SubSeq(tokens, k + 1, e - 1)
    \o <<Space, Token("Punctuation", ")"), Space>>
    \o SubSeq(tokens, e, Len(tokens))

\* The join condition that follows ON goes up to the next clause: a WHERE
\* clause, JOIN, ORDER BY, or the end of the list.
ConditionEnd(tokens, k) == FirstAfter(tokens, k, {"JOIN", "ORDER BY"}, FALSE)

(* C21: in predicate mode, when ON is met in state FOUND_TABLE with the
   predicate R, "R AND (" is inserted immediately after ON and one ")" is
   inserted before the first following sibling that is a WHERE clause or a
   keyword other than AND, OR, NOT, or at the end of the list; the inserted
   parentheses enclose exactly the original join condition. *)
C21_OnConditionEnclosed ==
    [][OnMet =>
        /\ scan' = OnEnclosed(scan, r_k, rls, FirstAfter(scan, r_k, {"AND", "OR", "NOT"}, TRUE))
        /\ scan' = OnEnclosed(scan, r_k, rls, ConditionEnd(scan, r_k))
        /\ r_state' = "SCANNING"]_vars

\* The place of the parentheses alone.
C21_OnClosedBeforeNextKeyword ==
    [][OnMet =>
        /\ scan' = OnEnclosed(scan, r_k, rls, FirstAfter(scan, r_k, {"AND", "OR", "NOT"}, TRUE))
        /\ r_state' = "SCANNING"]_vars

(* C22: in predicate mode, when the loop ends in state FOUND_TABLE with the
   predicate R, that is when nothing but whitespace follows the table, the
   clause WHERE R is appended as the last element of the list, after a
   blank, and the list is returned; no scan ends in FOUND_TABLE without its
   predicate in the list. *)
C22_WhereAppendedAtEnd ==
    [][(/\ comp = "rls" /\ mode = "predicate" /\ r_pc = "loop" /\ r_k > Len(scan)
        /\ r_state = "FOUND_TABLE")
       => /\ Rls(rls)
          /\ \E t \in 1..Len(scan) :
                /\ IsCandidate(scan[t])
                /\ \A q \in (t + 1)..Len(scan) : IsWhitespace(scan[q])
          /\ scan' = scan \o <<Space, Where(<<Keyword("WHERE"), Space, rls>>)>>
          /\ returned' = scan'
          /\ r_pc' = "done"]_vars

C22_Witness ==
    /\ comp = "rls" /\ mode = "predicate" /\ r_pc = "done" /\ r_state = "FOUND_TABLE"
    /\ returned = original \o <<Space, Where(<<Keyword("WHERE"), Space, rls>>)>>
    /\ rls # NoRls

(* add_table_name *)

MaxNesting == 1

\* The conditions of a predicate: a comparison on a column, on a column
\* with its table, or on a column whose name the lexer knows as a keyword
\* (the tokens of such a comparison are not grouped), a condition in
\* parentheses, and two of these joined by AND.
ColumnComparison(column) ==
    <<TokenList("Comparison", <<column, Token("Comparison", "="), Token("Integer", "1")>>)>>
QualifiedColumn == Identifier(<<Token("Name", "t2"), Token("Punctuation", "."), Token("Name", "c")>>)
KeywordComparison == <<Keyword("user"), Token("Comparison", "="), Token("Integer", "1")>>

RECURSIVE PredicatesAt(_)
PredicateOperandsAt(depth) ==
    {ColumnComparison(Name("c")), ColumnComparison(QualifiedColumn), KeywordComparison}
    \cup (IF depth = 0 THEN {} ELSE {<<InParentheses(p)>> : p \in PredicatesAt(depth - 1)})
PredicatesAt(depth) ==
    PredicateOperandsAt(depth)
    \cup {a \o <<Space, Keyword("AND"), Space>> \o b :
            a \in PredicateOperandsAt(depth), b \in PredicateOperandsAt(depth)}

InitQualify ==
    /\ comp = "qualify"
    /\ TableIdle /\ KqlIdle /\ PqIdle /\ RlsIdle /\ ScriptIdle /\ SettingsIdle
    /\ \E p \in PredicatesAt(MaxNesting), table \in {"t1", "t2"} :
        fn_in = [rls |-> TokenList("Statement", p), table |-> table]
    /\ fn_out = <<>>
    /\ fn_pc = "call"

\* add_table_name rewrites the tree of its argument.
AddTableName ==
    /\ comp = "qualify" /\ fn_pc = "call"
    /\ fn_out' = [rls |-> add_table_name(fn_in.rls, fn_in.table)]
    /\ fn_pc' = "done"
    /\ UNCHANGED <<notFn, fn_in>>

SpecQualify == InitQualify /\ [][AddTableName]_vars

\* The tree with every column reference that has no qualifier rewritten to
\* table.column, the column references being the identifiers and the
\* keyword tokens of the given names.
RECURSIVE Qualified(_, _, _)
Qualified(token, table, keywords) ==
    IF token.cls = "Identifier"
    THEN IF \E p \in 1..Len(token.tokens) : token.tokens[p] = Token("Punctuation", ".")
         THEN token
         ELSE [token EXCEPT !.tokens = <<Token("Name", table), Token("Punctuation", "."),
                                        Token("Name", token.tokens[Len(token.tokens)].value)>>]
    ELSE IF token.ttype = "Keyword" /\ token.value \in keywords
    THEN Identifier(<<Token("Name", table), Token("Punctuation", "."), Token("Name", token.value)>>)
    ELSE IF IsTokenList(token)
    THEN [token EXCEPT !.tokens = [p \in 1..Len(token.tokens) |-> Qualified(token.tokens[p], table, keywords)]]
    ELSE token

(* C23: after add_table_name(rls, table) every column reference of the
   predicate, at any depth, is qualified: the references that had no
   qualifier are rewritten to table.column and the references that had one
   are left as they were. *)
C23_EveryColumnQualified ==
    (fn_pc = "done" /\ comp = "qualify") =>
        fn_out.rls.tokens = Qualified(fn_in.rls, fn_in.table, {"user"}).tokens

\* The same for the column references that are identifiers.
C23_EveryIdentifierQualified ==
    (fn_pc = "done" /\ comp = "qualify") =>
        fn_out.rls.tokens = Qualified(fn_in.rls, fn_in.table, {}).tokens

\* The state before and after the loop has read the character at position
\* p (from 1) of the query.
StateBefore(p) == k_seen[p]
StateAfter(p) == IF p < Len(k_seen) THEN k_seen[p + 1] ELSE k_state

\* The state of the string a quote character delimits.
InsideOf(character) ==
    IF character = "'" THEN "INSIDE_SINGLE_QUOTED_STRING" ELSE "INSIDE_DOUBLE_QUOTED_STRING"

AfterBackslash(p) == p > 1 /\ query[p - 1] = Backslash

\* The quote characters read so far outside a string or inside the string
\* they delimit.
QuotesRead ==
    {p \in 1..Len(k_seen) :
        /\ query[p] \in {"'", DoubleQuote}
        /\ StateBefore(p) \in {"OUTSIDE_STRING", InsideOf(query[p])}}

(* C24 as stated: in split_kql a quote character changes the string state,
   when it enters a string from OUTSIDE_STRING and when it leaves it, only
   if the character before it is not a backslash; after a backslash it
   leaves the state unchanged. *)
C24_QuoteAfterBackslashKeepsState ==
    (comp = "kql" /\ k_pc \in {"loop", "done"}) =>
        \A p \in QuotesRead :
            IF AfterBackslash(p) THEN StateAfter(p) = StateBefore(p)
            ELSE StateAfter(p) # StateBefore(p)

(* C24: in split_kql a quote character read in OUTSIDE_STRING enters its
   string whatever the character before it, a backslash included; a quote
   read inside the string it delimits leaves it for OUTSIDE_STRING only if
   the character before it is not a backslash, and leaves the state
   unchanged after a backslash. *)
C24_BackslashEscapesClosingQuoteOnly ==
    (comp = "kql" /\ k_pc \in {"loop", "done"}) =>
        \A p \in QuotesRead :
            IF StateBefore(p) = "OUTSIDE_STRING" THEN StateAfter(p) = InsideOf(query[p])
            ELSE IF AfterBackslash(p) THEN StateAfter(p) = StateBefore(p)
            ELSE StateAfter(p) = "OUTSIDE_STRING"

C24_Witness ==
    /\ comp = "kql" /\ k_pc = "done"
    /\ \E p \in QuotesRead, r \in QuotesRead :
        /\ AfterBackslash(p) /\ StateBefore(p) = "OUTSIDE_STRING"
        /\ AfterBackslash(r) /\ StateBefore(r) = InsideOf(query[r])

\* The statement has the limit clause "LIMIT offset, L".
HasCommaLimit ==
    /\ comp = "limit" /\ Len(fn_in.parsed) = 1
    /\ LimitPos(fn_in.parsed[1]) # 0
    /\ fn_in.parsed[1][TokenNext(fn_in.parsed[1], LimitPos(fn_in.parsed[1]))].cls = "IdentifierList"

CommaLimit == fn_in.parsed[1][TokenNext(fn_in.parsed[1], LimitPos(fn_in.parsed[1]))]

\* The stripped text with "offset, n" in the place of "offset, L".
WithCommaLimit ==
    TextOf([p \in 1..Len(fn_in.parsed[1]) |->
        IF p = TokenNext(fn_in.parsed[1], LimitPos(fn_in.parsed[1]))
        THEN Lexeme("None", CommaLimit.tokens[1].value \o <<",", " ">> \o StrOf(fn_in.new_limit))
        ELSE fn_in.parsed[1][p]])

(* C25: when the existing limit is in the form "LIMIT offset, limit",
   set_or_update_query_limit(n, force) returns the query with "LIMIT
   offset, n": the offset is kept and the limit is n, whatever force is and
   whether n is smaller or larger than the existing limit. *)
C25_CommaLimitReplaced ==
    (fn_pc = "done" /\ HasCommaLimit) => fn_out.returned = WithCommaLimit

\* The same for the existing limits other than 0.
C25_PositiveCommaLimitReplaced ==
    (fn_pc = "done" /\ HasCommaLimit /\ IntOf(CommaLimit.tokens[4].value) > 0)
        => fn_out.returned = WithCommaLimit

\* The number of statements of a text: the places where the word SELECT
\* starts, every statement of the texts above starting with it.
StatementsIn(text) ==
    Cardinality({p \in 1..(Len(text) - 5) : Lower(SubSeq(text, p, p + 5)) = <<"s", "e", "l", "e", "c", "t">>})

(* C28: for a query of several statements, set_or_update_query_limit does
   not fail, also when the LIMIT is in a statement other than the first,
   and returns a text that still holds every statement of the query: the
   limit recorded at construction and the statement that is edited and
   rendered are of the same statement. *)
C28_EveryStatementKept ==
    (fn_pc = "done" /\ comp = "limit" /\ Len(fn_in.parsed) > 1) =>
        /\ fn_out.raised = "none"
        /\ StatementsIn(fn_out.returned) = Len(fn_in.parsed)
        /\ fn_out.limit = extract_limit_from_query(fn_in.parsed[1])

\* What holds for several statements: when the last statement has no limit,
\* or the limit 0, the whole text is returned with a limit clause after it.
C28_AppendedKeepsEveryStatement ==
    (fn_pc = "done" /\ comp = "limit" /\ Len(fn_in.parsed) > 1 /\ NotLimit(fn_out.limit)) =>
        /\ fn_out.raised = "none"
        /\ StatementsIn(fn_out.returned) = Len(fn_in.parsed)
        /\ fn_out.returned =
             stripped(fn_in.sql) \o <<Newline, "L", "I", "M", "I", "T", " ">> \o StrOf(fn_in.new_limit)

\* A comment stands somewhere in the tree.
RECURSIVE HasComment(_)
HasComment(tokens) ==
    \E p \in 1..Len(tokens) : tokens[p].cls = "Comment" \/ HasComment(tokens[p].tokens)

\* The rewrite is over, every table of the database having a predicate: a
\* table reference the rewrite looks up is then rewritten.
RewrittenWithEveryPredicate == comp = "rls" /\ r_pc = "done" /\ rls_tables = TableNames

(* C26: has_table_query and the two RLS rewrites agree on what a table
   reference is: when has_table_query returns true for an identifier or a
   keyword after FROM or JOIN, a comment in between included, the rewrite
   looks that reference up, so that the tree is rewritten when the
   reference has a predicate; when has_table_query returns false the
   rewrite looks nothing up and leaves the tree unchanged. *)
C26_RewriteAgreesWithHasTableQuery ==
    /\ RewrittenWithEveryPredicate => (has_table_query(original) => returned # original)
    /\ (comp = "rls" /\ r_pc = "done") => (~has_table_query(original) => returned = original)

\* The same for the trees that hold no comment.
C26_RewriteAgreesWithoutComment ==
    /\ (RewrittenWithEveryPredicate /\ ~HasComment(original))
            => (has_table_query(original) => returned # original)
    /\ (comp = "rls" /\ r_pc = "done") => (~has_table_query(original) => returned = original)

(* insert_rls_in_predicate, call by call, with filters that read tables *)

\* The depth of calls at which Python raises RecursionError.
RecursionLimit == 16

\* The filter of a dataset: none, id=42, or a test against a sub-query that
\* reads a table, named t1, main.t1 or user.
FilterKinds == {"none", "plain", "reads t1", "reads main.t1", "reads user"}

FilterReading(ref) ==
    TokenList("Statement",
        <<Name("id"), Space, Keyword("IN"), Space,
          InParentheses(<<Token("DML", "SELECT"), Space, Name("id"), Space, Keyword("FROM"), Space, ref>>)>>)

\* sqlparse.parse(predicate)[0]
ParsedFilter(kind) ==
    CASE kind = "plain" -> ParsedPredicate
      [] kind = "reads t1" -> FilterReading(Name("t1"))
      [] kind = "reads main.t1" ->
            FilterReading(Identifier(<<Token("Name", "main"), Token("Punctuation", "."), Token("Name", "t1")>>))
      [] kind = "reads user" -> FilterReading(Keyword("user"))

\* get_rls_for_table; fs gives the filter of the dataset of each table.
FilteredRlsForTable(candidate, fs) ==
    LET cand == IF candidate.cls # "Identifier"
                THEN Identifier(<<Token("Name", candidate.value)>>) ELSE candidate
        table == get_table(cand)
    IN  IF table = NoTable THEN NoRls
        ELSE IF ~(/\ (IF Truthy(table.schema) THEN table.schema ELSE DefaultSchema) = DatasetSchema
                  /\ table.table[1] \in DOMAIN fs)
        THEN NoRls
        ELSE IF fs[table.table[1]] = "none" THEN NoRls
        ELSE add_table_name(ParsedFilter(fs[table.table[1]]), table.table[1])

\* The if/elif chain of the loop for the token at position k, after the
\* call on it has returned.
PredicateBranch(tokens, k, state, found, fs) ==
    IF IsSourceKeyword(tokens[k])
    THEN [tokens |-> tokens, state |-> "SEEN_SOURCE", rls |-> found]
    ELSE IF state = "SEEN_SOURCE" /\ IsCandidate(tokens[k])
    THEN With(FilteredRlsForTable(tokens[k], fs), LAMBDA new :
         [tokens |-> tokens, state |-> IF Rls(new) THEN "FOUND_TABLE" ELSE state, rls |-> new])
    ELSE IF state = "FOUND_TABLE" /\ tokens[k].cls = "Where"
    THEN [tokens |-> [tokens EXCEPT ![k] = InsertInWhere(tokens[k], found)],
          state |-> "SCANNING", rls |-> found]
    ELSE IF state = "FOUND_TABLE" /\ tokens[k].ttype = "Keyword" /\ tokens[k].value = "ON"
    THEN [tokens |-> InsertInOn(tokens, k, found), state |-> "SCANNING", rls |-> found]
    ELSE IF state = "FOUND_TABLE" /\ ~IsWhitespace(tokens[k])
    THEN [tokens |-> InsertAt(tokens, k - 1, <<Space, WhereRls(found), Space>>),
          state |-> "SCANNING", rls |-> found]
    ELSE IF state = "SEEN_SOURCE" /\ ~IsWhitespace(tokens[k])
    THEN [tokens |-> tokens, state |-> "SCANNING", rls |-> found]
    ELSE [tokens |-> tokens, state |-> state, rls |-> found]

\* A call of insert_rls_in_predicate on a list: its locals, the position
\* of the loop, and whether the call on the token at that position is made.
Call(tlist) == [list |-> tlist, k |-> 1, state |-> "SCANNING", rls |-> NoRls, entered |-> FALSE]

CalledStatements ==
    UNION {{SelectFrom \o <<ref>>,
            SelectFrom \o <<ref, Space, Keyword("ORDER BY"), Space, Name("c")>>,
            SelectFrom \o <<ref, Space, Where(<<Keyword("WHERE"), Space, Comparison>>)>>,
            SelectFrom \o <<Name("t2"), Space, Keyword("JOIN"), Space, ref, Space, Keyword("ON"), Space, Comparison>>} :
           ref \in {Name("t1"), Keyword("user")}}

InitCalls ==
    /\ comp = "rls calls"
    /\ TableIdle /\ KqlIdle /\ PqIdle /\ OthersIdle
    /\ mode = "predicate" /\ rls_tables = {}
    /\ token_list \in CalledStatements
    /\ original = token_list
    /\ scan = <<>> /\ r_k = 1 /\ r_state = "SCANNING" /\ rls = NoRls
    /\ returned = <<>>
    /\ r_pc = "loop"
    /\ frames = <<Call(TokenList("Statement", token_list))>>
    /\ filters \in [TableNames -> FilterKinds]

Innermost == frames[Len(frames)]

\* The loop reads a token that is a list: the call on it starts, or fails
\* at the limit of the depth of calls.
CallOnChild ==
    /\ comp = "rls calls" /\ r_pc = "loop"
    /\ Innermost.k <= Len(Innermost.list.tokens)
    /\ IsTokenList(Innermost.list.tokens[Innermost.k]) /\ ~Innermost.entered
    /\ IF Len(frames) < RecursionLimit
       THEN /\ frames' = Append([frames EXCEPT ![Len(frames)].entered = TRUE],
                                Call(Innermost.list.tokens[Innermost.k]))
            /\ UNCHANGED r_pc
       ELSE /\ r_pc' = "RecursionError"
            /\ UNCHANGED frames
    /\ UNCHANGED <<mode, rls_tables, token_list, scan, original, r_k, r_state, rls, returned, filters, notRls>>

\* The rest of the pass of the loop over the token.
BranchOnToken ==
    /\ comp = "rls calls" /\ r_pc = "loop"
    /\ Innermost.k <= Len(Innermost.list.tokens)
    /\ ~IsTokenList(Innermost.list.tokens[Innermost.k]) \/ Innermost.entered
    /\ \E s \in {PredicateBranch(Innermost.list.tokens, Innermost.k, Innermost.state, Innermost.rls, filters)} :
        frames' = [frames EXCEPT ![Len(frames)] =
            [list |-> [Innermost.list EXCEPT !.tokens = s.tokens], k |-> Innermost.k + 1,
             state |-> s.state, rls |-> s.rls, entered |-> FALSE]]
    /\ UNCHANGED <<mode, rls_tables, token_list, scan, original, r_k, r_state, rls, returned, r_pc, filters, notRls>>

\* The loop of a call is over: the call returns its list to the caller,
\* which stores it where the token was.
ReturnToCaller ==
    /\ comp = "rls calls" /\ r_pc = "loop"
    /\ Innermost.k > Len(Innermost.list.tokens)
    /\ \E result \in {[Innermost.list EXCEPT
                        !.tokens = PredicateEnd(Innermost.list.tokens, Innermost.state, Innermost.rls)]} :
        IF Len(frames) = 1
        THEN /\ returned' = result.tokens
             /\ token_list' = result.tokens
             /\ r_pc' = "done"
             /\ frames' = <<>>
        ELSE /\ frames' = [SubSeq(frames, 1, Len(frames) - 1) EXCEPT
                            ![Len(frames) - 1].list.tokens[frames[Len(frames) - 1].k] = result]
             /\ UNCHANGED <<returned, token_list, r_pc>>
    /\ UNCHANGED <<mode, rls_tables, scan, original, r_k, r_state, rls, filters, notRls>>

NextCalls == CallOnChild \/ BranchOnToken \/ ReturnToCaller

SpecCalls == InitCalls /\ [][NextCalls]_vars

(* C27: insert_rls_in_predicate terminates for every token tree and every
   predicate lookup, also when the predicate of a table holds a sub-query
   that reads a table with a predicate, the same table included: the depth
   of its calls stays under the limit. *)
C27_CallsStayUnderLimit ==
    comp = "rls calls" => r_pc # "RecursionError"

\* The same when the sub-query of no predicate reads, by a name the lookup
\* finds, a table whose predicate holds a sub-query of that kind.
ReadsFoundTable(kind) == kind \in {"reads main.t1", "reads user"}
ReadTable(kind) == IF kind = "reads user" THEN "user" ELSE "t1"

C27_CallsStayUnderLimitWithoutCycle ==
    (/\ comp = "rls calls"
     /\ \A t \in TableNames : ReadsFoundTable(filters[t]) => ~ReadsFoundTable(filters[ReadTable(filters[t])]))
        => r_pc # "RecursionError"

====
